---- MODULE Spec2Model ----
(***************************************************************************)
(* stylish.js: a CSS-JavaScript processor.  The engine scans the document  *)
(* for elements carrying the `stylish` attribute, extracts the expression  *)
(* held in the `content` property of style rules and inline styles,        *)
(* decodes it as JSON and hands (nodes, args, provider) to the registered  *)
(* triggers; triggers call the registered handlers.                        *)
(*                                                                         *)
(* Text is modelled as sequences of one-character strings.  Every public   *)
(* method is one atomic action: JavaScript runs each call to completion.   *)
(***************************************************************************)
EXTENDS Integers, Sequences, FiniteSets, TLC

\* ------------------------------------------------------------------ bounds

\* At most this many registrations: the entries of the trigger list and of
\* the handler list together.
MaxRegistrations == 2

\* At most this many listener closures created by the `on` trigger.
MaxClosures == 2

\* The pass counter saturates here.
MaxPasses == 2

\* -------------------------------------------------------------- characters

Quotes == {"'", "\""}

WhiteSpace == {" ", "\t", "\n", "\r"}

LineTerminators == {"\n", "\r"}

LowerAlpha == {"a", "b", "x", "y"}

UpperAlpha == {"A", "B", "X", "Y"}

ToLower(c) ==
  CASE c = "A" -> "a" [] c = "B" -> "b" [] c = "X" -> "x" [] c = "Y" -> "y"
    [] OTHER -> c

\* s[i..j] (empty when j < i), as JavaScript's substring on 1-based bounds.
Slice(s, i, j) == IF j < i THEN <<>> ELSE SubSeq(s, i, j)

\* Stylish.ATTRIBUTE_NAME = 'stylish'
ATTRIBUTE_NAME == <<"s", "t", "y", "l", "i", "s", "h">>

\* --------------------------------------------------- expression extraction

\* The position of the `)` that closes the expression when `content` matches
\* REGEXP_EXPRESSION = ^['"]?stylish\((.*)\)['"]?$, and 0 when it does not.
\* The greedy `.*` takes the longest capture, so the last `)` is tried first;
\* `.` matches no line terminator and `$` only the end of the text.
REGEXP_EXPRESSION_close(content) ==
  LET n == Len(content)
      q == IF n > 0 /\ content[1] \in Quotes THEN 1 ELSE 0
      open == q + Len(ATTRIBUTE_NAME) + 1
      headOk == /\ n >= open + 1
                /\ Slice(content, q + 1, open - 1) = ATTRIBUTE_NAME
                /\ content[open] = "("
      endsAt(j) == /\ j > open
                   /\ j <= n
                   /\ content[j] = ")"
                   /\ \/ j = n
                      \/ j = n - 1 /\ content[n] \in Quotes
                   /\ \A k \in (open + 1)..(j - 1) :
                        content[k] \notin LineTerminators
  IN  IF ~headOk THEN 0
      ELSE IF endsAt(n) THEN n
      ELSE IF endsAt(n - 1) THEN n - 1
      ELSE 0

\* REGEXP_EXPRESSION.test(content)
REGEXP_EXPRESSION_test(content) == REGEXP_EXPRESSION_close(content) > 0

\* content.replace(REGEXP_EXPRESSION, '$1'): the pattern is anchored at both
\* ends, so the whole text is replaced by the capture.
REGEXP_EXPRESSION_capture(content) ==
  LET n == Len(content)
      q == IF n > 0 /\ content[1] \in Quotes THEN 1 ELSE 0
      open == q + Len(ATTRIBUTE_NAME) + 1
  IN  Slice(content, open + 1, REGEXP_EXPRESSION_close(content) - 1)

\* A faulty replace, as with /\\"/g: only a backslash followed by a double
\* quote becomes a `"`.
RECURSIVE ReplaceEscapedDoubleQuotes(_)
ReplaceEscapedDoubleQuotes(s) ==
  IF s = <<>> THEN <<>>
  ELSE IF Len(s) >= 2 /\ s[1] = "\\" /\ s[2] = "\""
       THEN <<"\"">> \o ReplaceEscapedDoubleQuotes(Slice(s, 3, Len(s)))
       ELSE <<s[1]>> \o ReplaceEscapedDoubleQuotes(Tail(s))

\* s.replace(REGEXP_ESCAPED_QUOTES, '"') with REGEXP_ESCAPED_QUOTES = /\\['"]/g:
\* a left-to-right scan, each backslash followed by a quote becomes one `"`.
RECURSIVE ReplaceEscapedQuotes(_)
ReplaceEscapedQuotes(s) ==
  IF s = <<>> THEN <<>>
  ELSE IF Len(s) >= 2 /\ s[1] = "\\" /\ s[2] \in Quotes
       THEN <<"\"">> \o ReplaceEscapedQuotes(Slice(s, 3, Len(s)))
       ELSE <<s[1]>> \o ReplaceEscapedQuotes(Tail(s))

\* String.prototype.trim
RECURSIVE TrimStart(_)
TrimStart(s) ==
  IF s # <<>> /\ s[1] \in WhiteSpace THEN TrimStart(Tail(s)) ELSE s

RECURSIVE TrimEnd(_)
TrimEnd(s) ==
  IF s # <<>> /\ s[Len(s)] \in WhiteSpace
  THEN TrimEnd(Slice(s, 1, Len(s) - 1))
  ELSE s

\* A faulty trim: white space is left at the end.
TrimLeading(s) == TrimStart(s)

Trim(s) == TrimEnd(TrimStart(s))

\* A faulty _extractArgumentString: the content is not tested against the
\* pattern (replace leaves a text that does not match as it is).
_extractArgumentStringUntested(content) ==
  IF Len(content) > Len(ATTRIBUTE_NAME)
  THEN Trim(ReplaceEscapedQuotes(IF REGEXP_EXPRESSION_test(content)
                                 THEN REGEXP_EXPRESSION_capture(content)
                                 ELSE content))
  ELSE <<>>

\* Stylish.prototype._extractArgumentString
_extractArgumentString(content) ==
  IF Len(content) > Len(ATTRIBUTE_NAME) /\ REGEXP_EXPRESSION_test(content)
  THEN Trim(ReplaceEscapedQuotes(REGEXP_EXPRESSION_capture(content)))
  ELSE <<>>

\* {"on":{"events":["click"],"mode":"local"}}
TxtOnLocal ==
  <<"{", "\"", "o", "n", "\"", ":", "{", "\"", "e", "v", "e", "n", "t",
    "s", "\"", ":", "[", "\"", "c", "l", "i", "c", "k", "\"", "]", ",",
    "\"", "m", "o", "d", "e", "\"", ":", "\"", "l", "o", "c", "a", "l",
    "\"", "}", "}">>
\* {"on":{"events":["click"],"mode":"global"}}
TxtOnGlobal ==
  <<"{", "\"", "o", "n", "\"", ":", "{", "\"", "e", "v", "e", "n", "t",
    "s", "\"", ":", "[", "\"", "c", "l", "i", "c", "k", "\"", "]", ",",
    "\"", "m", "o", "d", "e", "\"", ":", "\"", "g", "l", "o", "b", "a",
    "l", "\"", "}", "}">>
\* {"on":{"events":["click","keyup"]}}
TxtOnPlain ==
  <<"{", "\"", "o", "n", "\"", ":", "{", "\"", "e", "v", "e", "n", "t",
    "s", "\"", ":", "[", "\"", "c", "l", "i", "c", "k", "\"", ",", "\"",
    "k", "e", "y", "u", "p", "\"", "]", "}", "}">>
\* {"on":{"events":["click"],"mode":"x"}}
TxtOnOdd ==
  <<"{", "\"", "o", "n", "\"", ":", "{", "\"", "e", "v", "e", "n", "t",
    "s", "\"", ":", "[", "\"", "c", "l", "i", "c", "k", "\"", "]", ",",
    "\"", "m", "o", "d", "e", "\"", ":", "\"", "x", "\"", "}", "}">>
\* {"data":{"x":"1","y":2}}
TxtData ==
  <<"{", "\"", "d", "a", "t", "a", "\"", ":", "{", "\"", "x", "\"", ":",
    "\"", "1", "\"", ",", "\"", "y", "\"", ":", "2", "}", "}">>
\* {"data":{"a-b":"1"}}
TxtDataHyphen ==
  <<"{", "\"", "d", "a", "t", "a", "\"", ":", "{", "\"", "a", "-", "b",
    "\"", ":", "\"", "1", "\"", "}", "}">>
\* {bad}
TxtBad ==
  <<"{", "b", "a", "d", "}">>
\* null
TxtNull ==
  <<"n", "u", "l", "l">>
\* {"on":null}
TxtOnNull ==
  <<"{", "\"", "o", "n", "\"", ":", "n", "u", "l", "l", "}">>
\* {"data":null}
TxtDataNull ==
  <<"{", "\"", "d", "a", "t", "a", "\"", ":", "n", "u", "l", "l", "}">>
\* {"on":{}}
TxtOnEmpty ==
  <<"{", "\"", "o", "n", "\"", ":", "{", "}", "}">>
\* "hi"
TxtString ==
  <<"\"", "h", "i", "\"">>
\* 7
TxtNumber ==
  <<"7">>
\* []
TxtArray ==
  <<"[", "]">>

\* ------------------------------------------------------------- JSON values

K_on == <<"o", "n">>

K_data == <<"d", "a", "t", "a">>

K_events == <<"e", "v", "e", "n", "t", "s">>

K_mode == <<"m", "o", "d", "e">>

K_capture == <<"c", "a", "p", "t", "u", "r", "e">>

S_click == <<"c", "l", "i", "c", "k">>

S_keyup == <<"k", "e", "y", "u", "p">>

S_local == <<"l", "o", "c", "a", "l">>

S_global == <<"g", "l", "o", "b", "a", "l">>

\* A JavaScript value: the tag `t`, and a payload in `v`, `keys` and `val`.
\* An object keeps its own keys in insertion order.
JUndefined == [t |-> "undefined"]

JNull == [t |-> "null"]

JStr(s) == [t |-> "string", v |-> s]

JNum(n) == [t |-> "number", v |-> n]

JArr(items) == [t |-> "array", v |-> items]

JObj(keys, val) == [t |-> "object", keys |-> keys, val |-> val]

\* typeof x
TypeOf(x) ==
  CASE x.t \in {"null", "object", "array"} -> "object"
    [] OTHER -> x.t

\* Array.isArray(x)
IsArray(x) == x.t = "array"

\* x.k is a TypeError on null and undefined.
CanRead(x) == x.t \notin {"null", "undefined"}

\* x.k for the property names the engine reads (never an array index, never
\* `length`): an own property of an object, undefined on everything else.
Get(x, k) ==
  IF x.t = "object" /\ k \in DOMAIN x.val THEN x.val[k] ELSE JUndefined

\* The value a JSON text decodes to, for the texts the documents hold.
JsonTable ==
  << [text |-> TxtOnLocal,
      value |-> JObj(<<K_on>>, K_on :> JObj(<<K_events, K_mode>>,
                  K_events :> JArr(<<JStr(S_click)>>) @@ K_mode :> JStr(S_local)))],
     [text |-> TxtOnGlobal,
      value |-> JObj(<<K_on>>, K_on :> JObj(<<K_events, K_mode>>,
                  K_events :> JArr(<<JStr(S_click)>>) @@ K_mode :> JStr(S_global)))],
     [text |-> TxtOnPlain,
      value |-> JObj(<<K_on>>, K_on :> JObj(<<K_events>>,
                  K_events :> JArr(<<JStr(S_click), JStr(S_keyup)>>)))],
     [text |-> TxtOnOdd,
      value |-> JObj(<<K_on>>, K_on :> JObj(<<K_events, K_mode>>,
                  K_events :> JArr(<<JStr(S_click)>>) @@ K_mode :> JStr(<<"x">>)))],
     [text |-> TxtData,
      value |-> JObj(<<K_data>>, K_data :> JObj(<< <<"x">>, <<"y">> >>,
                  <<"x">> :> JStr(<<"1">>) @@ <<"y">> :> JNum(2)))],
     [text |-> TxtDataHyphen,
      value |-> JObj(<<K_data>>, K_data :> JObj(<< <<"a", "-", "b">> >>,
                  <<"a", "-", "b">> :> JStr(<<"1">>)))],
     [text |-> TxtNull, value |-> JNull],
     [text |-> TxtOnNull, value |-> JObj(<<K_on>>, K_on :> JNull)],
     [text |-> TxtDataNull, value |-> JObj(<<K_data>>, K_data :> JNull)],
     [text |-> TxtOnEmpty,
      value |-> JObj(<<K_on>>, K_on :> JObj(<<>>, <<>>))],
     [text |-> TxtString, value |-> JStr(<<"h", "i">>)],
     [text |-> TxtNumber, value |-> JNum(7)],
     [text |-> TxtArray, value |-> JArr(<<>>)] >>

\* The characters a JSON string literal cannot hold unescaped.
JsonControl == {"\t", "\n", "\r"}

\* The body of a JSON string literal (the text between its quotes) is well
\* formed: no bare quote, no control character, and every backslash starts
\* one of the escapes \" \\ \/ \n \r \t (the texts of the model hold no
\* other escape).
RECURSIVE JsonStringBodyOk(_)
JsonStringBodyOk(body) ==
  IF body = <<>> THEN TRUE
  ELSE IF body[1] = "\\"
       THEN /\ Len(body) >= 2
            /\ body[2] \in {"\"", "\\", "/", "n", "r", "t"}
            /\ JsonStringBodyOk(Slice(body, 3, Len(body)))
       ELSE /\ body[1] # "\""
            /\ body[1] \notin JsonControl
            /\ JsonStringBodyOk(Tail(body))

\* The character an escape of a JSON string literal stands for.
JsonEscaped(c) ==
  CASE c = "n" -> "\n" [] c = "r" -> "\r" [] c = "t" -> "\t" [] OTHER -> c

\* The string a well-formed body decodes to.
RECURSIVE JsonStringValue(_)
JsonStringValue(body) ==
  IF body = <<>> THEN <<>>
  ELSE IF body[1] = "\\"
       THEN <<JsonEscaped(body[2])>> \o JsonStringValue(Slice(body, 3, Len(body)))
       ELSE <<body[1]>> \o JsonStringValue(Tail(body))

\* The text is a JSON string literal.
IsJsonString(source) ==
  /\ Len(source) >= 2
  /\ source[1] = "\""
  /\ source[Len(source)] = "\""
  /\ JsonStringBodyOk(Slice(source, 2, Len(source) - 1))

\* JSON.parse(source): the decoded value, or the SyntaxError it throws.  The
\* texts of the documents decode as JsonTable says; of the other texts of
\* the model only the string literals are JSON.
JSONparse(source) ==
  LET hits == {i \in DOMAIN JsonTable : JsonTable[i].text = source}
      inner == Trim(source)
  IN  IF hits # {}
      THEN [ok |-> TRUE, value |-> JsonTable[CHOOSE i \in hits : TRUE].value]
      ELSE IF IsJsonString(inner)
      THEN [ok |-> TRUE,
            value |-> JStr(JsonStringValue(Slice(inner, 2, Len(inner) - 1)))]
      ELSE [ok |-> FALSE, value |-> JUndefined]

\* The decimal digit of 0..9.
DigitChar(n) ==
  CASE n = 0 -> "0" [] n = 1 -> "1" [] n = 2 -> "2" [] n = 3 -> "3"
    [] n = 4 -> "4" [] n = 5 -> "5" [] n = 6 -> "6" [] n = 7 -> "7"
    [] n = 8 -> "8" [] OTHER -> "9"

\* String(x), as the DOM applies it to an attribute value (numbers of the
\* documents have one digit; arrays of the documents are empty).
JsString(x) ==
  CASE x.t = "string" -> x.v
    [] x.t = "number" -> <<DigitChar(x.v)>>
    [] x.t = "null" -> <<"n", "u", "l", "l">>
    [] x.t = "undefined" -> <<"u", "n", "d", "e", "f", "i", "n", "e", "d">>
    [] x.t = "array" -> <<>>
    [] OTHER -> <<"[", "o", "b", "j", "e", "c", "t", " ", "O", "b", "j", "e",
                  "c", "t", "]">>

\* ------------------------------------------------------------ the document

\* The elements in document order: the style element that owns the sheet,
\* a div holding a span and a nested div, and a second div.
Elements ==
  << [id |-> "s", localName |-> "style", parent |-> ""],
     [id |-> "a", localName |-> "div", parent |-> ""],
     [id |-> "b", localName |-> "span", parent |-> "a"],
     [id |-> "c", localName |-> "div", parent |-> "a"],
     [id |-> "e", localName |-> "div", parent |-> ""] >>

ElementIds == {Elements[i].id : i \in DOMAIN Elements}

ElementOf(id) == Elements[CHOOSE i \in DOMAIN Elements : Elements[i].id = id]

\* A string as CSSOM serialises it: backslash and the delimiter escaped.
RECURSIVE CssEscape(_, _)
CssEscape(s, quote) ==
  IF s = <<>> THEN <<>>
  ELSE IF s[1] = quote \/ s[1] = "\\"
       THEN <<"\\", s[1]>> \o CssEscape(Tail(s), quote)
       ELSE <<s[1]>> \o CssEscape(Tail(s), quote)

\* style.content of `content: "stylish(<text>)"`, as the source's comment
\* on REGEXP_EXPRESSION shows it, with either delimiter.
CssContent(argument, quote) ==
  <<quote>> \o CssEscape(ATTRIBUTE_NAME \o <<"(">> \o argument \o <<")">>, quote)
    \o <<quote>>

\* style.content of a declaration that holds no expression.
PlainContent == <<"\"", "h", "e", "l", "l", "o", "\"">>

StyleRule(id, selectorText, content) ==
  [id |-> id, kind |-> "style", selectorText |-> selectorText,
   content |-> content, cssRules |-> <<>>]

\* A conditional group rule: nested rules, no selector, no style of its own.
MediaRule(id, cssRules) ==
  [id |-> id, kind |-> "media", selectorText |-> "", content |-> <<>>,
   cssRules |-> cssRules]

\* The documents: the sheet of the style element, the elements that carry
\* the `stylish` attribute, and the inline style.content of each element.
Documents ==
  << [sheet |-> << StyleRule("r1", "div", CssContent(TxtOnLocal, "\"")),
                   StyleRule("r2", "div", CssContent(TxtData, "\"")),
                   StyleRule("r3", "em", CssContent(TxtOnPlain, "\"")),
                   StyleRule("r4", "span", PlainContent) >>,
      stylish |-> {"s"},
      inline |-> [id \in ElementIds |-> <<>>]],
     [sheet |-> << StyleRule("r1", "span", CssContent(TxtData, "\"")),
                   StyleRule("r2", "div", CssContent(TxtBad, "\"")),
                   StyleRule("r3", "div", CssContent(TxtOnPlain, "\"")) >>,
      stylish |-> {"s", "e"},
      inline |-> [id \in ElementIds |->
                    IF id = "e" THEN CssContent(TxtData, "\"") ELSE <<>>]],
     [sheet |-> << StyleRule("r1", "div", CssContent(TxtOnEmpty, "\"")),
                   StyleRule("r2", "div", CssContent(TxtDataNull, "\"")),
                   StyleRule("r3", "span", CssContent(TxtString, "'")),
                   StyleRule("r4", "div", CssContent(TxtNumber, "\"")),
                   StyleRule("r5", "div", CssContent(TxtArray, "\"")),
                   StyleRule("r6", "div", CssContent(TxtOnNull, "\"")),
                   StyleRule("r7", "div", CssContent(TxtNull, "\"")),
                   StyleRule("r8", "div", CssContent(TxtData, "\"")) >>,
      stylish |-> {"s"},
      inline |-> [id \in ElementIds |-> <<>>]],
     [sheet |-> << StyleRule("r1", "div", CssContent(TxtOnGlobal, "'")),
                   StyleRule("r2", "div", CssContent(TxtOnOdd, "\"")),
                   StyleRule("r3", "span", CssContent(TxtDataHyphen, "\"")),
                   StyleRule("r4", "div", CssContent(TxtData, "\"")) >>,
      stylish |-> {"s"},
      inline |-> [id \in ElementIds |-> <<>>]],
     [sheet |-> << StyleRule("r1", "span", CssContent(TxtData, "\"")),
                   MediaRule("r2",
                     << StyleRule("r3", "div", CssContent(TxtOnPlain, "\"")) >>),
                   StyleRule("r4", "div", CssContent(TxtData, "\"")) >>,
      stylish |-> {"s"},
      inline |-> [id \in ElementIds |-> <<>>]] >>

\* --------------------------------------------------------------- the world

\* What one call can read and change: the engine's two lists, the DOM (the
\* listeners, the data attributes, the innerText assignments), the number of
\* listener closures created so far, the invocations made by this call and
\* the exception in flight.
NoError == [name |-> "none", where |-> "", label |-> "", cause |-> ""]

\* The lists of an engine that no page has created, or that is new.
NoPeer == [triggers |-> <<>>, handlers |-> <<>>]

\* The world as the other engine of the page sees it: its own two lists as
\* `this`, the same DOM and the same variables of the triggers' scope.
Swap(w) ==
  [w EXCEPT !.triggers = w.peer.triggers,
            !.handlers = w.peer.handlers,
            !.peer = [triggers |-> w.triggers, handlers |-> w.handlers],
            !.self = 3 - w.self]

Threw(w) == w.err.name # "none"

Throw(w, name, cause) ==
  [w EXCEPT !.err = [name |-> name, where |-> "", label |-> "", cause |-> cause]]

Logged(w, entry) == [w EXCEPT !.log = Append(@, entry)]

\* The trigger identities (function references): the two built-in triggers,
\* triggerCustom of the demo page and a trigger that throws.
Triggers == {"on", "data", "custom", "faulty"}

\* ------------------------------------------------------------------ the DOM

RECURSIVE Ancestors(_)
\* The ancestors of an element, nearest first.
Ancestors(id) ==
  LET parent == ElementOf(id).parent
  IN  IF parent = "" THEN <<>> ELSE <<parent>> \o Ancestors(parent)

\* Assigning innerText replaces the children of the element: an element
\* below one whose innerText was assigned is no longer in the document.
Attached(w, id) ==
  \A i \in DOMAIN Ancestors(id) :
    \A r \in w.text : r.node # Ancestors(id)[i]

Ids(elems) == [i \in DOMAIN elems |-> elems[i].id]

\* document.querySelector in place of querySelectorAll: the first matching
\* element only.
QuerySelectorFirst(w, selectorText) ==
  LET Matches(el) == el.localName = selectorText /\ Attached(w, el.id)
  IN  IF SelectSeq(Elements, Matches) = <<>> THEN <<>>
      ELSE <<Head(SelectSeq(Elements, Matches)).id>>

\* document.querySelectorAll of a type selector: the matching elements in
\* document order.
QuerySelectorAll(w, selectorText) ==
  LET Matches(el) == el.localName = selectorText /\ Attached(w, el.id)
  IN  Ids(SelectSeq(Elements, Matches))

\* document.querySelectorAll(Stylish.QUERY_SELECTOR), QUERY_SELECTOR = *[stylish]
QueryStylish(w, doc) ==
  LET Matches(el) == el.id \in doc.stylish /\ Attached(w, el.id)
  IN  Ids(SelectSeq(Elements, Matches))

\* node.addEventListener(type, listener, capture): a listener already on the
\* node with the same type, callback and capture flag is not added again.
AddEventListener(w, node, type, closure, capture) ==
  LET l == [node |-> node, type |-> type, capture |-> capture,
            closure |-> closure.id, mode |-> closure.mode,
            nodes |-> closure.nodes, trigger |-> closure.trigger,
            provider |-> closure.provider, engine |-> closure.engine]
      w1 == Logged(w, [kind |-> "addEventListener", node |-> node,
                       type |-> type, closure |-> closure.id])
  IN  IF \E i \in DOMAIN w.listeners : w.listeners[i] = l
      THEN w1
      ELSE [w1 EXCEPT !.listeners = Append(@, l)]

\* node.removeEventListener(type, listener): the listener on the node with
\* the type, the callback and the capture flag false leaves the node.
RemoveEventListener(w, node, type, closureId) ==
  LET Stays(l) == ~(/\ l.node = node
                    /\ l.type = type
                    /\ l.closure = closureId
                    /\ ~l.capture)
  IN  [Logged(w, [kind |-> "removeEventListener", node |-> node,
                  type |-> type, closure |-> closureId])
         EXCEPT !.listeners = SelectSeq(@, Stays)]

DataPrefix == <<"d", "a", "t", "a", "-">>

\* The attribute name of a dataset property: each upper-case letter becomes
\* a hyphen and its lower-case letter.
RECURSIVE Hyphenated(_)
Hyphenated(name) ==
  IF name = <<>> THEN <<>>
  ELSE IF name[1] \in UpperAlpha
       THEN <<"-", ToLower(name[1])>> \o Hyphenated(Tail(name))
       ELSE <<name[1]>> \o Hyphenated(Tail(name))

\* node.dataset[name] = value.  The DOM refuses a name that holds a hyphen
\* followed by a lower-case letter (SyntaxError); otherwise it sets the
\* attribute data-<hyphenated name> to String(value).
DatasetSet(w, node, name, value) ==
  LET w1 == Logged(w, [kind |-> "dataset", node |-> node, name |-> name])
  IN
  IF \E i \in 1..(Len(name) - 1) : name[i] = "-" /\ name[i + 1] \in LowerAlpha
  THEN Throw(w1, "SyntaxError", "not a valid property name")
  ELSE LET attr == DataPrefix \o Hyphenated(name)
       IN  [w1 EXCEPT !.attrs =
              {r \in @ : ~(r.node = node /\ r.name = attr)}
                \cup {[node |-> node, name |-> attr, value |-> JsString(value)]}]

\* node.innerText = value
SetInnerText(w, node, value) ==
  [w EXCEPT !.text = {r \in @ : r.node # node}
                       \cup {[node |-> node, value |-> value]}]

\* ------------------------------------------------------------ registration

\* Array.prototype.indexOf, 1-based; 0 when the value is absent.
IndexOf(list, x) ==
  IF \E i \in DOMAIN list : list[i] = x
  THEN CHOOSE i \in DOMAIN list : list[i] = x /\ \A j \in 1..(i - 1) : list[j] # x
  ELSE 0

\* list.splice(index, 1)
Splice(list, index) ==
  Slice(list, 1, index - 1) \o Slice(list, index + 1, Len(list))

\* A faulty addTrigger: a trigger that is in the list is not added again.
addTriggerUnlessPresent(w, trigger) ==
  IF IndexOf(w.triggers, trigger) > 0
  THEN [w EXCEPT !.ret = "this"]
  ELSE [w EXCEPT !.triggers = Append(@, trigger), !.ret = "this"]

\* Stylish.prototype.addTrigger
addTrigger(w, trigger) ==
  [w EXCEPT !.triggers = Append(@, trigger), !.ret = "this"]

\* A faulty removeTrigger: the handler list is filtered and the trigger
\* list is left as it is.
removeTriggerKeepsList(w, trigger) ==
  LET index == IndexOf(w.triggers, trigger)
      Kept(handler) == handler.trigger = trigger
  IN  IF index > 0
      THEN [w EXCEPT !.handlers = SelectSeq(@, Kept), !.ret = "this"]
      ELSE [w EXCEPT !.ret = "this"]

\* A faulty removeTrigger: every occurrence leaves the list.
removeTriggerEvery(w, trigger) ==
  LET index == IndexOf(w.triggers, trigger)
      Other(t) == t # trigger
      Kept(handler) == handler.trigger = trigger
  IN  IF index > 0
      THEN [w EXCEPT !.triggers = SelectSeq(@, Other),
                     !.handlers = SelectSeq(@, Kept), !.ret = "this"]
      ELSE [w EXCEPT !.ret = "this"]

\* Stylish.prototype.removeTrigger: the first occurrence leaves the list,
\* and the handler list is filtered with handler.trigger === trigger.
removeTrigger(w, trigger) ==
  LET index == IndexOf(w.triggers, trigger)
      Kept(handler) == handler.trigger = trigger
  IN  IF index > 0
      THEN [w EXCEPT !.triggers = Splice(@, index),
                     !.handlers = SelectSeq(@, Kept), !.ret = "this"]
      ELSE [w EXCEPT !.ret = "this"]

\* Stylish.prototype.addHandler
addHandler(w, trigger, fn) ==
  [w EXCEPT !.handlers = Append(@, [trigger |-> trigger, fn |-> fn]),
            !.ret = "this"]

\* The for loop of removeHandler: the length is read again at each test and
\* the index moves on after a splice as after any other entry.
RECURSIVE RemoveHandlerLoop(_, _, _, _)
RemoveHandlerLoop(list, index, trigger, fn) ==
  IF index > Len(list) THEN list
  ELSE IF list[index].trigger = trigger /\ list[index].fn = fn
       THEN RemoveHandlerLoop(Splice(list, index), index + 1, trigger, fn)
       ELSE RemoveHandlerLoop(list, index + 1, trigger, fn)

\* A faulty removeHandler: it ends without `return this`.
removeHandlerReturnsNothing(w, trigger, fn) ==
  [w EXCEPT !.handlers = RemoveHandlerLoop(@, 1, trigger, fn)]

\* Stylish.prototype.removeHandler
removeHandler(w, trigger, fn) ==
  [w EXCEPT !.handlers = RemoveHandlerLoop(@, 1, trigger, fn), !.ret = "this"]

\* ---------------------------------------------------------------- handlers

\* The callback identities: one that returns and one that throws.
Callbacks == {"h1", "hFaulty"}

\* A callback that returns and one that, when invoked, removes its own
\* registration: engine.removeHandler(trigger, hSelf).
ReentrantCallbacks == {"h1", "hSelf"}

\* handler.fn.call(this, nodes, payload, trigger)
CallHandler(w, handler, nodes, payload) ==
  LET w1 == Logged(w, [kind |-> "handler", fn |-> handler.fn,
                       trigger |-> handler.trigger, nodes |-> nodes,
                       payload |-> payload])
  IN  CASE handler.fn = "hFaulty" -> Throw(w1, "Error", "faulty handler")
        [] handler.fn = "hSelf" ->
             [removeHandler(
                Logged(w1, [kind |-> "removeHandler", before |-> w1.handlers]),
                handler.trigger, handler.fn)
              EXCEPT !.ret = w1.ret]
        [] OTHER -> w1

\* A faulty HandlerVisit: the callback is invoked whatever trigger it was
\* registered against.
HandlerVisitAnyTrigger(w, handler, nodes, payload, trigger) ==
  CallHandler(w, handler, nodes, payload)

\* The body of this._handlers.forEach in _processHandler.
HandlerVisit(w, handler, nodes, payload, trigger) ==
  IF trigger = handler.trigger
  THEN CallHandler(w, handler, nodes, payload)
  ELSE w

\* Array.prototype.forEach over this._handlers: the indices below the length
\* read when the loop starts, each visited if the list still holds it; an
\* exception ends the loop.
RECURSIVE HandlersForEach(_, _, _, _, _, _)
HandlersForEach(w, k, len, nodes, payload, trigger) ==
  IF k > len \/ Threw(w) THEN w
  ELSE IF k > Len(w.handlers)
       THEN HandlersForEach(w, k + 1, len, nodes, payload, trigger)
       ELSE HandlersForEach(
              HandlerVisit(w, w.handlers[k], nodes, payload, trigger),
              k + 1, len, nodes, payload, trigger)

\* A faulty _processHandler: the loop is wrapped in a try whose catch clause
\* drops the exception.
_processHandlerSwallows(w, nodes, payload, trigger) ==
  [HandlersForEach(
     Logged(w, [kind |-> "dispatch", trigger |-> trigger, nodes |-> nodes,
                payload |-> payload]),
     1, Len(w.handlers), nodes, payload, trigger)
   EXCEPT !.err = NoError]

\* Stylish.prototype._processHandler
_processHandler(w, nodes, payload, trigger) ==
  HandlersForEach(
    Logged(w, [kind |-> "dispatch", trigger |-> trigger, nodes |-> nodes,
               payload |-> payload]),
    1, Len(w.handlers), nodes, payload, trigger)

\* ---------------------------------------------------------------- triggers

\* MODES = [ 'local', 'global' ]
MODES == <<S_local, S_global>>

\* The truth value of a decoded JSON value.
ToBoolean(x) ==
  CASE x.t \in {"undefined", "null"} -> FALSE
    [] x.t = "string" -> x.v # <<>>
    [] x.t = "number" -> x.v # 0
    [] OTHER -> TRUE

\* on.events.forEach(event => nodes.forEach(node =>
\*   node.addEventListener(event, EVENT_HANDLER, on.capture)))
RECURSIVE OnNodesForEach(_, _, _, _, _)
OnNodesForEach(w, nodes, type, closure, capture) ==
  IF nodes = <<>> THEN w
  ELSE OnNodesForEach(AddEventListener(w, Head(nodes), type, closure, capture),
                      Tail(nodes), type, closure, capture)

RECURSIVE OnEventsForEach(_, _, _, _, _)
OnEventsForEach(w, events, nodes, closure, capture) ==
  IF events = <<>> THEN w
  ELSE OnEventsForEach(
         OnNodesForEach(w, nodes, JsString(Head(events)), closure, capture),
         Tail(events), nodes, closure, capture)

\* Stylish.triggers.on: function triggerOn(nodes, { on }, styleProvider).
\* Destructuring null or undefined is a TypeError, and so is on.events when
\* `on` is null (typeof null is 'object').  Each call that passes the guard
\* creates a new EVENT_HANDLER closure over MODE and nodes.
triggerOn(w, nodes, args, styleProvider) ==
  IF ~CanRead(args)
  THEN Throw(w, "TypeError", "Cannot destructure property 'on'")
  ELSE LET on == Get(args, K_on)
       IN  IF Len(nodes) > 0 /\ TypeOf(on) = "object"
           THEN IF ~CanRead(on)
                THEN Throw(w, "TypeError", "Cannot read properties of null")
                ELSE IF IsArray(Get(on, K_events))
                THEN LET mode == Get(on, K_mode)
                         MODE == IF mode.t = "string"
                                    /\ \E i \in DOMAIN MODES : MODES[i] = mode.v
                                 THEN mode.v
                                 ELSE S_local
                         closure == [id |-> w.closures + 1, mode |-> MODE,
                                     nodes |-> nodes, trigger |-> "on",
                                     provider |-> styleProvider.id,
                                     engine |-> w.self]
                     IN  OnEventsForEach([w EXCEPT !.closures = @ + 1],
                                         Get(on, K_events).v, nodes, closure,
                                         ToBoolean(Get(on, K_capture)))
                ELSE w
           ELSE w

\* nodes.forEach(node => { if (typeof _prevHandler === 'function')
\*   node.removeEventListener(event, _prevHandler);
\*   node.addEventListener(event, _currHandler); }) of triggerOn, v0.1.1
RECURSIVE TrackedNodesForEach(_, _, _, _)
TrackedNodesForEach(w, nodes, type, closure) ==
  IF nodes = <<>> THEN w
  ELSE LET w1 == IF w.prev # 0
                 THEN RemoveEventListener(w, Head(nodes), type, w.prev)
                 ELSE w
       IN  TrackedNodesForEach(
             AddEventListener(w1, Head(nodes), type, closure, FALSE),
             Tail(nodes), type, closure)

\* args.on.events.forEach of triggerOn, v0.1.1
RECURSIVE TrackedEventsForEach(_, _, _, _)
TrackedEventsForEach(w, events, nodes, closure) ==
  IF events = <<>> THEN w
  ELSE TrackedEventsForEach(
         TrackedNodesForEach(w, nodes, JsString(Head(events)), closure),
         Tail(events), nodes, closure)

\* Stylish.triggers.on of v0.1.1: function triggerOn(nodes, args,
\* styleProvider), with _prevHandler and _currHandler in the scope around
\* it.  args.on of null or undefined args is a TypeError, and so is
\* args.on.events when args.on is null.
triggerOnTracked(w, nodes, args, styleProvider) ==
  IF Len(nodes) = 0 THEN w
  ELSE IF ~CanRead(args)
  THEN Throw(w, "TypeError", "Cannot read properties of null")
  ELSE LET on == Get(args, K_on)
       IN  IF TypeOf(on) = "object"
           THEN IF ~CanRead(on)
                THEN Throw(w, "TypeError", "Cannot read properties of null")
                ELSE IF IsArray(Get(on, K_events))
                THEN LET mode == Get(on, K_mode)
                         MODE == IF mode.t = "string"
                                    /\ \E i \in DOMAIN MODES : MODES[i] = mode.v
                                 THEN mode.v
                                 ELSE S_local
                         closure == [id |-> w.closures + 1, mode |-> MODE,
                                     nodes |-> nodes, trigger |-> "onTracked",
                                     provider |-> styleProvider.id,
                                     engine |-> w.self]
                     IN  TrackedEventsForEach(
                           [w EXCEPT !.closures = @ + 1,
                                     !.prev = w.curr,
                                     !.curr = w.closures + 1],
                           Get(on, K_events).v, nodes, closure)
                ELSE w
           ELSE w

\* The own enumerable property names of `data`, in for-in order.
ForInKeys(data) ==
  CASE data.t = "object" -> data.keys
    [] data.t = "array" -> [i \in DOMAIN data.v |-> <<DigitChar(i - 1)>>]
    [] OTHER -> <<>>

\* data[name] of an own property
GetOwn(data, name) ==
  IF data.t = "object" THEN data.val[name]
  ELSE data.v[CHOOSE i \in DOMAIN data.v : <<DigitChar(i - 1)>> = name]

\* nodes.forEach(node => { node.dataset[name] = data[name]; })
RECURSIVE DataNodesForEach(_, _, _, _)
DataNodesForEach(w, nodes, name, value) ==
  IF nodes = <<>> \/ Threw(w) THEN w
  ELSE DataNodesForEach(DatasetSet(w, Head(nodes), name, value),
                        Tail(nodes), name, value)

\* for (let name in data) of triggerData: the attribute on every node, then
\* one handler dispatch, per key.
RECURSIVE DataForIn(_, _, _, _)
DataForIn(w, names, data, nodes) ==
  IF names = <<>> \/ Threw(w) THEN w
  ELSE LET w1 == DataNodesForEach(w, nodes, Head(names),
                                  GetOwn(data, Head(names)))
           w2 == IF Threw(w1) THEN w1
                 ELSE _processHandler(w1, nodes,
                        [kind |-> "data", data |-> data], "data")
       IN  DataForIn(w2, Tail(names), data, nodes)

\* Stylish.triggers.data: function triggerData(nodes, { data }, styleProvider)
triggerData(w, nodes, args, styleProvider) ==
  IF ~CanRead(args)
  THEN Throw(w, "TypeError", "Cannot destructure property 'data'")
  ELSE LET data == Get(args, K_data)
       IN  IF Len(nodes) > 0 /\ TypeOf(data) = "object"
           THEN DataForIn(w, ForInKeys(data), data, nodes)
           ELSE w

\* nodes.forEach(node => node.innerText = args)
RECURSIVE CustomNodesForEach(_, _, _)
CustomNodesForEach(w, nodes, value) ==
  IF nodes = <<>> THEN w
  ELSE CustomNodesForEach(SetInnerText(w, Head(nodes), value), Tail(nodes), value)

\* triggerCustom of the demo page: a string argument becomes the innerText
\* of every node.
triggerCustom(w, nodes, args, styleProvider) ==
  IF TypeOf(args) = "string"
  THEN CustomNodesForEach(w, nodes, args.v)
  ELSE w

\* A trigger of the embedding page that throws whenever it is invoked.
triggerFaulty(w, nodes, args, styleProvider) ==
  Throw(w, "Error", "faulty trigger")

\* A trigger of the embedding page that removes itself when it is invoked:
\* this.removeTrigger(triggerSelfRemoving).
triggerSelfRemoving(w, nodes, args, styleProvider) ==
  [removeTrigger(
     Logged(w, [kind |-> "removeTrigger", before |-> w.triggers]),
     "selfRemoving")
   EXCEPT !.ret = w.ret]

\* trigger.call(this, nodes, args, styleProvider)
CallTrigger(w, trigger, nodes, args, styleProvider) ==
  LET w1 == Logged(w, [kind |-> "trigger", trigger |-> trigger, nodes |-> nodes,
                       args |-> args, provider |-> styleProvider.id])
  IN  CASE trigger = "on" -> triggerOn(w1, nodes, args, styleProvider)
        [] trigger = "data" -> triggerData(w1, nodes, args, styleProvider)
        [] trigger = "custom" -> triggerCustom(w1, nodes, args, styleProvider)
        [] trigger = "onTracked" -> triggerOnTracked(w1, nodes, args, styleProvider)
        [] trigger = "selfRemoving" ->
             triggerSelfRemoving(w1, nodes, args, styleProvider)
        [] OTHER -> triggerFaulty(w1, nodes, args, styleProvider)

\* styleProvider.selectorText || styleProvider.localName
ProviderLabel(styleProvider) ==
  IF styleProvider.selectorText # "" THEN styleProvider.selectorText
  ELSE IF styleProvider.localName # "" THEN styleProvider.localName
  ELSE "undefined"

\* A faulty body of the loop: no catch clause, the trigger's exception
\* leaves as it is.
TriggerVisitRethrows(w, trigger, nodes, args, styleProvider) ==
  CallTrigger(w, trigger, nodes, args, styleProvider)

\* The body of this._triggers.forEach in _processTrigger: the call, and the
\* catch clause that throws a new Error naming the provider and the cause.
TriggerVisit(w, trigger, nodes, args, styleProvider) ==
  LET w1 == CallTrigger(w, trigger, nodes, args, styleProvider)
  IN  IF Threw(w1)
      THEN [w1 EXCEPT !.err = [name |-> "Error", where |-> "_processTrigger",
                               label |-> ProviderLabel(styleProvider),
                               cause |-> w1.err.cause]]
      ELSE w1

RECURSIVE TriggersForEach(_, _, _, _, _, _)
TriggersForEach(w, k, len, nodes, args, styleProvider) ==
  IF k > len \/ Threw(w) THEN w
  ELSE IF k > Len(w.triggers)
       THEN TriggersForEach(w, k + 1, len, nodes, args, styleProvider)
       ELSE TriggersForEach(
              TriggerVisit(w, w.triggers[k], nodes, args, styleProvider),
              k + 1, len, nodes, args, styleProvider)

\* A faulty _processTrigger: the loop ends after the first trigger.
_processTriggerFirstOnly(w, nodes, args, styleProvider) ==
  TriggersForEach(
    Logged(w, [kind |-> "dispatchTriggers", provider |-> styleProvider.id,
               nodes |-> nodes, args |-> args]),
    1, IF Len(w.triggers) > 0 THEN 1 ELSE 0, nodes, args, styleProvider)

\* Stylish.prototype._processTrigger
_processTrigger(w, nodes, args, styleProvider) ==
  TriggersForEach(
    Logged(w, [kind |-> "dispatchTriggers", provider |-> styleProvider.id,
               nodes |-> nodes, args |-> args]),
    1, Len(w.triggers), nodes, args, styleProvider)

\* The body of this._triggers.forEach in _processTrigger of v0.1.0 and
\* v0.1.1: a trigger identical to `sender` is passed over.
SenderTriggerVisit(w, trigger, nodes, args, styleProvider, sender) ==
  IF sender # trigger
  THEN TriggerVisit(w, trigger, nodes, args, styleProvider)
  ELSE w

RECURSIVE SenderTriggersForEach(_, _, _, _, _, _, _)
SenderTriggersForEach(w, k, len, nodes, args, styleProvider, sender) ==
  IF k > len \/ Threw(w) THEN w
  ELSE IF k > Len(w.triggers)
       THEN SenderTriggersForEach(w, k + 1, len, nodes, args, styleProvider,
                                  sender)
       ELSE SenderTriggersForEach(
              SenderTriggerVisit(w, w.triggers[k], nodes, args, styleProvider,
                                 sender),
              k + 1, len, nodes, args, styleProvider, sender)

\* A faulty dispatcher: `sender` is not looked at.
_processTriggerIgnoresSender(w, nodes, args, styleProvider, sender) ==
  _processTrigger(w, nodes, args, styleProvider)

\* Stylish.prototype._processTrigger of v0.1.0 and v0.1.1:
\* function(nodes, args, styleProvider, payload, sender); the payload goes
\* to the triggers as a fourth argument that none of them reads.
_processTriggerSender(w, nodes, args, styleProvider, sender) ==
  SenderTriggersForEach(
    Logged(w, [kind |-> "dispatchTriggers", provider |-> styleProvider.id,
               nodes |-> nodes, args |-> args]),
    1, Len(w.triggers), nodes, args, styleProvider, sender)

\* --------------------------------------------------------------- providers

\* An element as a style provider: its inline style.
ElementProvider(doc, id) ==
  [id |-> id, kind |-> "element", selectorText |-> "",
   localName |-> ElementOf(id).localName, content |-> doc.inline[id],
   cssRules |-> <<>>]

\* A rule of the sheet as a style provider.
RuleProvider(rule) ==
  [id |-> rule.id, kind |-> rule.kind, selectorText |-> rule.selectorText,
   localName |-> "", content |-> rule.content, cssRules |-> rule.cssRules]

\* Stylish.prototype._processStyleProvider.  A group rule has no `style`,
\* so reading styleProvider.style.content is a TypeError.  A text that does
\* not decode throws a new Error naming the provider.
_processStyleProvider(w, styleProvider) ==
  LET w0 == Logged(w, [kind |-> "provider", provider |-> styleProvider.id])
  IN  IF styleProvider.kind = "media"
      THEN Throw(w0, "TypeError", "Cannot read properties of undefined")
      ELSE LET arg == _extractArgumentString(styleProvider.content)
               parsed == JSONparse(arg)
               nodes == IF styleProvider.kind = "style"
                        THEN QuerySelectorAll(w0, styleProvider.selectorText)
                        ELSE <<styleProvider.id>>
           IN  IF Len(arg) > 0
               THEN IF ~parsed.ok
                    THEN [w0 EXCEPT !.err =
                            [name |-> "Error", where |-> "_processStyleProvider",
                             label |-> ProviderLabel(styleProvider),
                             cause |-> "SyntaxError"]]
                    ELSE _processTrigger(w0, nodes, parsed.value, styleProvider)
               ELSE w0

\* Stylish.prototype._processStyleObject over styleObject.cssRules: for each
\* rule, its nested rules first, then the rule itself.
RECURSIVE _processStyleObject(_, _)
_processStyleObject(w, rules) ==
  IF rules = <<>> \/ Threw(w) THEN w
  ELSE LET rule == Head(rules)
           w1 == _processStyleObject(w, rule.cssRules)
           w2 == IF Threw(w1) THEN w1
                 ELSE _processStyleProvider(w1, RuleProvider(rule))
       IN  _processStyleObject(w2, Tail(rules))

\* The body of nodes.forEach in process().
ProcessNode(w, doc, id) ==
  IF ElementOf(id).localName \in {"link", "style"}
  THEN _processStyleObject(w, doc.sheet)
  ELSE _processStyleProvider(w, ElementProvider(doc, id))

RECURSIVE ProcessForEach(_, _, _)
ProcessForEach(w, doc, nodes) ==
  IF nodes = <<>> \/ Threw(w) THEN w
  ELSE ProcessForEach(ProcessNode(w, doc, Head(nodes)), doc, Tail(nodes))

\* Stylish.prototype.process: the pass, then `return this`.
process(w, doc) ==
  LET w1 == ProcessForEach(w, doc, QueryStylish(w, doc))
  IN  IF Threw(w1) THEN w1 ELSE [w1 EXCEPT !.ret = "this"]

\* ------------------------------------------------------------------ events

\* EVENT_HANDLER of triggerOn (and _currHandler of triggerOn, v0.1.1):
\* event => this._processHandler(
\*   (MODE === 'local') ? [ event.target ] : nodes, { event }, triggerOn)
EVENT_HANDLER(w, listener, event) ==
  LET nodes == IF listener.mode = S_local THEN <<event.target>>
               ELSE listener.nodes
      payload == [kind |-> "event", event |-> event]
  IN  IF listener.engine = w.self
      THEN _processHandler(w, nodes, payload, listener.trigger)
      ELSE Swap(_processHandler(Swap(w), nodes, payload, listener.trigger))

\* One listener invoked by the DOM; an exception a listener throws is
\* reported by the DOM and does not stop the event.
InvokeListener(w, listener, event) ==
  LET w1 == EVENT_HANDLER(
              Logged(w, [kind |-> "listener", node |-> listener.node,
                         closure |-> listener.closure]),
              listener, event)
  IN  IF Threw(w1)
      THEN [Logged(w1, [kind |-> "reported", cause |-> w1.err.cause])
              EXCEPT !.err = NoError]
      ELSE w1

RECURSIVE InvokeListeners(_, _, _)
InvokeListeners(w, ls, event) ==
  IF ls = <<>> THEN w
  ELSE InvokeListeners(InvokeListener(w, Head(ls), event), Tail(ls), event)

Reverse(s) == [i \in DOMAIN s |-> s[Len(s) + 1 - i]]

\* The listeners of one node for an event type, in the order they were
\* added; `phase` selects capturing, bubbling or (at the target) both.
ListenersAt(w, node, type, phase) ==
  LET Wanted(l) == /\ l.node = node
                   /\ l.type = type
                   /\ \/ phase = "target"
                      \/ phase = "capture" /\ l.capture
                      \/ phase = "bubble" /\ ~l.capture
  IN  SelectSeq(w.listeners, Wanted)

RECURSIVE PhaseListeners(_, _, _, _)
PhaseListeners(w, path, type, phase) ==
  IF path = <<>> THEN <<>>
  ELSE ListenersAt(w, Head(path), type, phase)
         \o PhaseListeners(w, Tail(path), type, phase)

\* The DOM delivers a bubbling event dispatched at `target`: the capturing
\* listeners of its ancestors from the root down, the listeners of the
\* target, then the bubbling listeners of its ancestors from the parent up.
DispatchEvent(w, target, type) ==
  LET event == [type |-> type, target |-> target]
      up == Ancestors(target)
  IN  InvokeListeners(w,
        PhaseListeners(w, Reverse(up), type, "capture")
          \o ListenersAt(w, target, type, "target")
          \o PhaseListeners(w, up, type, "bubble"),
        event)

\* ------------------------------------------------------------------- state

VARIABLES
  docId,      \* the document loaded in the page
  triggers,   \* this._triggers
  handlers,   \* this._handlers
  listeners,  \* the event listeners of the elements, in the order added
  attrs,      \* the data attributes of the elements
  text,       \* the innerText assignments
  closures,   \* the EVENT_HANDLER closures created so far
  passes,     \* the process() calls made so far, up to MaxPasses
  last,       \* the last process() call or event: its invocations and exception
  input,      \* a style.content text handed to the extractor
  output,     \* what the extractor and the provider processor made of it
  _currHandler,  \* the listener triggerOn of v0.1.1 created last, 0 for none
  _prevHandler,  \* the listener it created before that one, 0 for none
  peer        \* _triggers and _handlers of a second engine of the page

vars ==
  <<docId, triggers, handlers, listeners, attrs, text, closures, passes, last,
    input, output, _currHandler, _prevHandler, peer>>

Doc == Documents[docId]

\* The world a call starts in.
World ==
  [triggers |-> triggers, handlers |-> handlers, listeners |-> listeners,
   attrs |-> attrs, text |-> text, closures |-> closures, log |-> <<>>,
   err |-> NoError, ret |-> "undefined", curr |-> _currHandler,
   prev |-> _prevHandler, self |-> 1, peer |-> peer]

\* What the page sees of a call: the method, what it was called with, the
\* invocations it made, the exception it threw and the value it returned.
Call(op, target, type, w) ==
  [op |-> op, target |-> target, type |-> type, log |-> w.log, err |-> w.err,
   ret |-> w.ret]

\* The constructor invokes nothing and throws nothing.
Registration == Call("registration", "", <<>>, World)

\* The call leaves the world w.
Becomes(w) ==
  /\ triggers' = w.triggers
  /\ handlers' = w.handlers
  /\ listeners' = w.listeners
  /\ attrs' = w.attrs
  /\ text' = w.text
  /\ closures' = w.closures
  /\ _currHandler' = w.curr
  /\ _prevHandler' = w.prev
  /\ peer' = w.peer

\* The registrations the page makes with addHandler: callbacks against the
\* two built-in triggers.
HandlerPairs == [trigger : {"on", "data"}, fn : Callbacks]

\* The elements the user clicks.
EventTargets == {"b", "c", "e"}

\* No text has been handed to the extractor.
NotExtracted == [done |-> FALSE, arg |-> <<>>, log |-> <<>>, err |-> NoError]

\* function Stylish(): both lists empty, in a page that holds one document.
Init ==
  /\ docId \in DOMAIN Documents
  /\ triggers = <<>>
  /\ handlers = <<>>
  /\ listeners = <<>>
  /\ attrs = {}
  /\ text = {}
  /\ closures = 0
  /\ passes = 0
  /\ _currHandler = 0
  /\ _prevHandler = 0
  /\ peer = NoPeer
  /\ last = Registration
  /\ input = <<>>
  /\ output = NotExtracted

AddTrigger(t) ==
  /\ Len(triggers) + Len(handlers) < MaxRegistrations
  /\ LET w == addTrigger(World, t)
     IN  Becomes(w) /\ last' = Registration
  /\ UNCHANGED <<docId, passes, input, output>>

RemoveTrigger(t) ==
  /\ LET w == removeTrigger(World, t)
     IN  Becomes(w) /\ last' = Registration
  /\ UNCHANGED <<docId, passes, input, output>>

AddHandler(t, fn) ==
  /\ Len(triggers) + Len(handlers) < MaxRegistrations
  /\ LET w == addHandler(World, t, fn)
     IN  Becomes(w) /\ last' = Registration
  /\ UNCHANGED <<docId, passes, input, output>>

RemoveHandler(t, fn) ==
  /\ LET w == removeHandler(World, t, fn)
     IN  Becomes(w) /\ last' = Registration
  /\ UNCHANGED <<docId, passes, input, output>>

Process ==
  /\ LET w == process(World, Doc)
     IN  /\ w.closures <= MaxClosures
         /\ Becomes(w)
         /\ last' = Call("process", "", <<>>, w)
  /\ passes' = IF passes < MaxPasses THEN passes + 1 ELSE passes
  /\ UNCHANGED <<docId, input, output>>

\* The user acts on an element of the page that has listeners.
FireEvent(target, type) ==
  /\ listeners # <<>>
  /\ Attached(World, target)
  /\ LET w == DispatchEvent(World, target, type)
     IN  Becomes(w) /\ last' = Call("event", target, type, w)
  /\ UNCHANGED <<docId, passes, input, output>>

Next ==
  \/ \E t \in Triggers : AddTrigger(t)
  \/ \E t \in Triggers : RemoveTrigger(t)
  \/ \E h \in HandlerPairs : AddHandler(h.trigger, h.fn)
  \/ \E h \in HandlerPairs : RemoveHandler(h.trigger, h.fn)
  \/ Process
  \/ \E target \in EventTargets : FireEvent(target, S_click)

Spec == Init /\ [][Next]_vars

\* ------------------------------------------------------- the calls, kept

\* A call as the page that made it keeps it: the method, the arguments,
\* both lists as they were before the call, the invocations the call made,
\* the exception it threw and the value it returned.
Kept(op, trigger, fn, w) ==
  [op |-> op, target |-> trigger, fn |-> fn,
   before |-> [triggers |-> triggers, handlers |-> handlers],
   log |-> w.log, err |-> w.err, ret |-> w.ret]

\* new Stylish(), in the page that holds the first document.
RegistryInit ==
  /\ docId = 1
  /\ triggers = <<>>
  /\ handlers = <<>>
  /\ listeners = <<>>
  /\ attrs = {}
  /\ text = {}
  /\ closures = 0
  /\ passes = 0
  /\ _currHandler = 0
  /\ _prevHandler = 0
  /\ peer = NoPeer
  /\ last = Kept("new", "", "", [World EXCEPT !.ret = "this"])
  /\ input = <<>>
  /\ output = NotExtracted

AddTriggerCall(t) ==
  /\ Len(triggers) + Len(handlers) < MaxRegistrations
  /\ LET w == addTrigger(World, t)
     IN  Becomes(w) /\ last' = Kept("addTrigger", t, "", w)
  /\ UNCHANGED <<docId, passes, input, output>>

RemoveTriggerCall(t) ==
  /\ LET w == removeTrigger(World, t)
     IN  Becomes(w) /\ last' = Kept("removeTrigger", t, "", w)
  /\ UNCHANGED <<docId, passes, input, output>>

AddHandlerCall(t, fn) ==
  /\ Len(triggers) + Len(handlers) < MaxRegistrations
  /\ LET w == addHandler(World, t, fn)
     IN  Becomes(w) /\ last' = Kept("addHandler", t, fn, w)
  /\ UNCHANGED <<docId, passes, input, output>>

RemoveHandlerCall(t, fn) ==
  /\ LET w == removeHandler(World, t, fn)
     IN  Becomes(w) /\ last' = Kept("removeHandler", t, fn, w)
  /\ UNCHANGED <<docId, passes, input, output>>

ProcessCall ==
  /\ LET w == process(World, Doc)
     IN  /\ w.closures <= MaxClosures
         /\ Becomes(w)
         /\ last' = Kept("process", "", "", w)
  /\ passes' = IF passes < MaxPasses THEN passes + 1 ELSE passes
  /\ UNCHANGED <<docId, input, output>>

RegistryNext ==
  \/ \E t \in Triggers : AddTriggerCall(t)
  \/ \E t \in Triggers : RemoveTriggerCall(t)
  \/ \E h \in HandlerPairs : AddHandlerCall(h.trigger, h.fn)
  \/ \E h \in HandlerPairs : RemoveHandlerCall(h.trigger, h.fn)
  \/ ProcessCall

\* The page calls the engine's methods in any order and fires no event.
RegistrySpec == RegistryInit /\ [][RegistryNext]_vars

\* ------------------------------------------- the `on` trigger of v0.1.1

\* At most this many listeners created by triggerOn of v0.1.1.
MaxTrackedClosures == 4

\* The documents of the pages that use the trigger.
TrackedDocuments == {1, 4}

\* An engine with Stylish.triggers.on of v0.1.1 registered.
TrackedInit ==
  /\ docId \in TrackedDocuments
  /\ triggers = <<"onTracked">>
  /\ handlers = <<>>
  /\ listeners = <<>>
  /\ attrs = {}
  /\ text = {}
  /\ closures = 0
  /\ passes = 0
  /\ _currHandler = 0
  /\ _prevHandler = 0
  /\ peer = NoPeer
  /\ last = Registration
  /\ input = <<>>
  /\ output = NotExtracted

TrackedProcess ==
  /\ LET w == process(World, Doc)
     IN  /\ w.closures <= MaxTrackedClosures
         /\ Becomes(w)
         /\ last' = Call("process", "", <<>>, w)
  /\ passes' = IF passes < MaxPasses THEN passes + 1 ELSE passes
  /\ UNCHANGED <<docId, input, output>>

TrackedNext ==
  \/ \E fn \in Callbacks : AddHandler("onTracked", fn)
  \/ \E fn \in Callbacks : RemoveHandler("onTracked", fn)
  \/ TrackedProcess
  \/ \E target \in EventTargets, type \in {S_click, S_keyup} :
       FireEvent(target, type)

\* The page registers handlers for the trigger, calls process() and the
\* user acts on the elements, in any order.
TrackedSpec == TrackedInit /\ [][TrackedNext]_vars

\* ---------------------------------------------------------- the extractor

\* At most this many characters follow the marker in a content text.
MaxArgLen == 4

\* The characters of the content texts: a letter, a blank, a line feed, the
\* closing parenthesis, the backslash and both quotes.
ContentAlphabet == {"a", " ", "\n", ")", "\\", "\"", "'"}

TextsUpTo(n) == UNION {[1..k -> ContentAlphabet] : k \in 0..n}

\* What a content text starts with: nothing, a quote or another character.
Leads == {<<>>, <<"\"">>, <<"'">>, <<"a">>}

\* The marker with its parenthesis, without it, and misspelt.
Markers ==
  {ATTRIBUTE_NAME \o <<"(">>, ATTRIBUTE_NAME, <<"S">> \o Tail(ATTRIBUTE_NAME) \o <<"(">>}

\* The style.content texts of the extractor's specification.
Contents ==
  {lead \o marker \o rest :
     lead \in Leads, marker \in Markers, rest \in TextsUpTo(MaxArgLen)}

\* A page whose sheet holds one div rule with the content text, and an
\* engine with the demo page's trigger registered.
ExtractInit ==
  /\ docId = 1
  /\ triggers = <<"custom">>
  /\ handlers = <<>>
  /\ listeners = <<>>
  /\ attrs = {}
  /\ text = {}
  /\ closures = 0
  /\ passes = 0
  /\ _currHandler = 0
  /\ _prevHandler = 0
  /\ peer = NoPeer
  /\ last = Registration
  /\ input \in Contents
  /\ output = NotExtracted

\* The rule is handed to the provider processor, which runs the extractor
\* on its content.
Extract ==
  /\ ~output.done
  /\ LET w == _processStyleProvider(World, RuleProvider(StyleRule("r", "div", input)))
     IN  /\ Becomes(w)
         /\ output' = [done |-> TRUE, arg |-> _extractArgumentString(input),
                       log |-> w.log, err |-> w.err]
  /\ UNCHANGED <<docId, passes, last, input>>

ExtractNext == Extract

ExtractSpec == ExtractInit /\ [][ExtractNext]_vars

\* ------------------------------------------------------------- properties

\* The invocations of the last process() call or event.
Log == last.log

\* The index of the latest entry of one of the kinds before entry k, or 0.
Owner(k, kinds) ==
  IF \E i \in 1..(k - 1) : Log[i].kind \in kinds
  THEN CHOOSE i \in 1..(k - 1) :
         /\ Log[i].kind \in kinds
         /\ \A j \in (i + 1)..(k - 1) : Log[j].kind \notin kinds
  ELSE 0

\* The rules of a rule list in the order a pass visits them.
RECURSIVE RulesInOrder(_)
RulesInOrder(rules) ==
  IF rules = <<>> THEN <<>>
  ELSE RulesInOrder(Head(rules).cssRules) \o <<RuleProvider(Head(rules))>>
         \o RulesInOrder(Tail(rules))

\* The style providers of a document in the order a pass visits them: the
\* rules of the sheet, then the marked element with an inline style.
ProvidersOf(doc) ==
  RulesInOrder(doc.sheet)
    \o [i \in 1..Cardinality(doc.stylish \ {"s"}) |-> ElementProvider(doc, "e")]

\* What a pass owes a provider: whether it bears a marker whose argument
\* text decodes, the decoded arguments, and the elements it applies to in
\* document order.
Described(p) ==
  LET arg == IF p.kind = "media" THEN <<>>
             ELSE _extractArgumentString(p.content)
      Matches(el) == el.localName = p.selectorText
  IN  [id |-> p.id,
       wellFormed |-> Len(arg) > 0 /\ JSONparse(arg).ok,
       args |-> JSONparse(arg).value,
       nodes |-> IF p.kind = "element" THEN <<p.id>>
                 ELSE Ids(SelectSeq(Elements, Matches))]

ProviderTable ==
  [d \in DOMAIN Documents |->
     [i \in DOMAIN ProvidersOf(Documents[d]) |->
        Described(ProvidersOf(Documents[d])[i])]]

\* The providers of the document in the page.
ProvidersInOrder == ProviderTable[docId]

WellFormed(p) == p.wellFormed

ArgsOf(p) == p.args

NodesOf(p) == p.nodes

\* ------------------------------------------- handlers added after a pass

\* A call as the page keeps it, with the registrations the page has added
\* and has removed since its first process() call.
Noted(op, target, type, w, added, removed) ==
  [op |-> op, target |-> target, type |-> type, log |-> w.log, err |-> w.err,
   ret |-> w.ret, added |-> added, removed |-> removed]

\* An engine with Stylish.triggers.on registered.
LookupInit ==
  /\ docId = 1
  /\ triggers = <<"on">>
  /\ handlers = <<>>
  /\ listeners = <<>>
  /\ attrs = {}
  /\ text = {}
  /\ closures = 0
  /\ passes = 0
  /\ _currHandler = 0
  /\ _prevHandler = 0
  /\ peer = NoPeer
  /\ last = Noted("new", "", <<>>, World, {}, {})
  /\ input = <<>>
  /\ output = NotExtracted

LookupProcess ==
  /\ LET w == process(World, Doc)
     IN  /\ w.closures <= MaxClosures
         /\ Becomes(w)
         /\ last' = Noted("process", "", <<>>, w, last.added, last.removed)
  /\ passes' = IF passes < MaxPasses THEN passes + 1 ELSE passes
  /\ UNCHANGED <<docId, input, output>>

LookupAddHandler(fn) ==
  /\ Len(handlers) < MaxRegistrations
  /\ LET w == addHandler(World, "on", fn)
         h == [trigger |-> "on", fn |-> fn]
     IN  /\ Becomes(w)
         /\ last' = IF passes = 0
                    THEN Noted("addHandler", "on", <<>>, w, {}, {})
                    ELSE Noted("addHandler", "on", <<>>, w,
                               last.added \cup {h}, last.removed \ {h})
  /\ UNCHANGED <<docId, passes, input, output>>

LookupRemoveHandler(fn) ==
  /\ LET w == removeHandler(World, "on", fn)
         h == [trigger |-> "on", fn |-> fn]
     IN  /\ Becomes(w)
         /\ last' = IF passes = 0
                    THEN Noted("removeHandler", "on", <<>>, w, {}, {})
                    ELSE Noted("removeHandler", "on", <<>>, w,
                               last.added \ {h}, last.removed \cup {h})
  /\ UNCHANGED <<docId, passes, input, output>>

\* The user clicks an element.
LookupFireEvent(target) ==
  /\ listeners # <<>>
  /\ LET w == DispatchEvent(World, target, S_click)
     IN  /\ Becomes(w)
         /\ last' = Noted("event", target, S_click, w, last.added, last.removed)
  /\ UNCHANGED <<docId, passes, input, output>>

LookupNext ==
  \/ LookupProcess
  \/ \E fn \in Callbacks : LookupAddHandler(fn)
  \/ \E fn \in Callbacks : LookupRemoveHandler(fn)
  \/ \E target \in EventTargets : LookupFireEvent(target)

\* The page calls process(), adds and removes handlers of the `on` trigger
\* and the user clicks, in any order.
LookupSpec == LookupInit /\ [][LookupNext]_vars

\* ------------------------------------- removal while a dispatch runs

\* The triggers the page registers: the built-in data trigger, the demo
\* page's trigger and a trigger that removes itself.
ReentrantTriggers == {"data", "custom", "selfRemoving"}

ReentrantInit ==
  /\ docId = 1
  /\ triggers = <<>>
  /\ handlers = <<>>
  /\ listeners = <<>>
  /\ attrs = {}
  /\ text = {}
  /\ closures = 0
  /\ passes = 0
  /\ _currHandler = 0
  /\ _prevHandler = 0
  /\ peer = NoPeer
  /\ last = Registration
  /\ input = <<>>
  /\ output = NotExtracted

ReentrantAddTrigger(t) ==
  /\ Len(triggers) < MaxRegistrations
  /\ LET w == addTrigger(World, t)
     IN  Becomes(w) /\ last' = Registration
  /\ UNCHANGED <<docId, passes, input, output>>

ReentrantAddHandler(fn) ==
  /\ Len(handlers) < MaxRegistrations
  /\ LET w == addHandler(World, "data", fn)
     IN  Becomes(w) /\ last' = Registration
  /\ UNCHANGED <<docId, passes, input, output>>

ReentrantNext ==
  \/ \E t \in ReentrantTriggers : ReentrantAddTrigger(t)
  \/ \E fn \in ReentrantCallbacks : ReentrantAddHandler(fn)
  \/ Process

\* The page registers triggers and handlers of the data trigger, some of
\* which remove themselves when they are invoked, and calls process().
ReentrantSpec == ReentrantInit /\ [][ReentrantNext]_vars

\* ---------------------------------------------------------- two engines

\* The engines of the page.
Engines == {1, 2}

\* The triggers the engines register: Stylish.triggers.data and
\* Stylish.triggers.on of v0.1.1.
InstanceTriggers == {"data", "onTracked"}

\* The callback each engine registers for the data trigger.
CallbackOf(engine) == IF engine = 1 THEN "h1" ELSE "h2"

\* The world with the engine as `this`, and the world an engine's call
\* leaves, as the page keeps it.
AsThis(engine, w) == IF engine = w.self THEN w ELSE Swap(w)

\* The two lists of the engine.
ListsOf(engine) ==
  IF engine = 1 THEN [triggers |-> triggers, handlers |-> handlers] ELSE peer

\* A call as the page keeps it: the method, the engine it was called on,
\* the lists of the other engine and the listeners of the elements before
\* the call, the invocations the call made and the exception it threw.
Seen(op, engine, w) ==
  [op |-> op, engine |-> engine, others |-> ListsOf(3 - engine),
   listened |-> listeners, log |-> w.log, err |-> w.err, ret |-> w.ret]

\* Two engines: new Stylish(), twice.
InstancesInit ==
  /\ docId = 1
  /\ triggers = <<>>
  /\ handlers = <<>>
  /\ listeners = <<>>
  /\ attrs = {}
  /\ text = {}
  /\ closures = 0
  /\ passes = 0
  /\ _currHandler = 0
  /\ _prevHandler = 0
  /\ peer = NoPeer
  /\ last = Seen("new", 1, World)
  /\ input = <<>>
  /\ output = NotExtracted

InstanceAddTrigger(engine, t) ==
  /\ Len(triggers) + Len(handlers) + Len(peer.triggers) + Len(peer.handlers)
       < MaxRegistrations
  /\ LET w == addTrigger(AsThis(engine, World), t)
     IN  Becomes(AsThis(1, w)) /\ last' = Seen("addTrigger", engine, w)
  /\ UNCHANGED <<docId, passes, input, output>>

InstanceRemoveTrigger(engine, t) ==
  /\ LET w == removeTrigger(AsThis(engine, World), t)
     IN  Becomes(AsThis(1, w)) /\ last' = Seen("removeTrigger", engine, w)
  /\ UNCHANGED <<docId, passes, input, output>>

InstanceAddHandler(engine) ==
  /\ Len(triggers) + Len(handlers) + Len(peer.triggers) + Len(peer.handlers)
       < MaxRegistrations
  /\ LET w == addHandler(AsThis(engine, World), "data", CallbackOf(engine))
     IN  Becomes(AsThis(1, w)) /\ last' = Seen("addHandler", engine, w)
  /\ UNCHANGED <<docId, passes, input, output>>

InstanceRemoveHandler(engine) ==
  /\ LET w == removeHandler(AsThis(engine, World), "data", CallbackOf(engine))
     IN  Becomes(AsThis(1, w)) /\ last' = Seen("removeHandler", engine, w)
  /\ UNCHANGED <<docId, passes, input, output>>

InstanceProcess(engine) ==
  /\ LET w == process(AsThis(engine, World), Doc)
     IN  /\ w.closures <= MaxClosures
         /\ Becomes(AsThis(1, w))
         /\ last' = Seen("process", engine, w)
  /\ passes' = IF passes < MaxPasses THEN passes + 1 ELSE passes
  /\ UNCHANGED <<docId, input, output>>

InstancesNext ==
  \/ \E engine \in Engines, t \in InstanceTriggers :
       InstanceAddTrigger(engine, t)
  \/ \E engine \in Engines, t \in InstanceTriggers :
       InstanceRemoveTrigger(engine, t)
  \/ \E engine \in Engines : InstanceAddHandler(engine)
  \/ \E engine \in Engines : InstanceRemoveHandler(engine)
  \/ \E engine \in Engines : InstanceProcess(engine)

\* The page calls the methods of its two engines in any order.
InstancesSpec == InstancesInit /\ [][InstancesNext]_vars

\* ------------------------------------------------- process(), step by step

\* What process() has still to do: a marked node, a rule list or a style
\* provider.
NodeItem(id) == [item |-> "node", id |-> id]
RulesItem(rules) == [item |-> "rules", rules |-> rules]
ProviderItem(p) == [item |-> "provider", provider |-> p]

\* A faulty loop of _processStyleObject: `i` is not incremented.
ExpandAgain(rules) ==
  IF rules = <<>> THEN <<>> ELSE <<RulesItem(rules)>>

\* The loop of _processStyleObject over a rule list: for the first rule
\* its nested rules, then the rule as a provider, then the rules after it.
Expand(rules) ==
  IF rules = <<>> THEN <<>>
  ELSE <<RulesItem(Head(rules).cssRules),
         ProviderItem(RuleProvider(Head(rules))),
         RulesItem(Tail(rules))>>

\* The call in progress, or the last call or event: whether it is still
\* running, what it has still to do, the invocations it made, the exception
\* it threw and the value it returned.
Frame(op, running, todo, w) ==
  [op |-> op, running |-> running, todo |-> todo, log |-> w.log,
   err |-> w.err, ret |-> w.ret]

\* The trigger lists and the handler lists of the engine.
StepTriggerLists == {<<"on">>, <<"data">>, <<"on", "data">>}

StepHandlerLists ==
  {<<>>, <<[trigger |-> "on", fn |-> "h1"], [trigger |-> "data", fn |-> "h1"]>>}

StepInit ==
  /\ docId \in DOMAIN Documents
  /\ triggers \in StepTriggerLists
  /\ handlers \in StepHandlerLists
  /\ listeners = <<>>
  /\ attrs = {}
  /\ text = {}
  /\ closures = 0
  /\ passes = 0
  /\ _currHandler = 0
  /\ _prevHandler = 0
  /\ peer = NoPeer
  /\ last = Frame("new", FALSE, <<>>, World)
  /\ input = <<>>
  /\ output = NotExtracted

\* process() is called: document.querySelectorAll(Stylish.QUERY_SELECTOR).
StepStart ==
  /\ ~last.running
  /\ passes < MaxPasses
  /\ passes' = passes + 1
  /\ last' = Frame("process", TRUE,
                   [i \in DOMAIN QueryStylish(World, Doc) |->
                      NodeItem(QueryStylish(World, Doc)[i])],
                   World)
  /\ UNCHANGED <<docId, triggers, handlers, listeners, attrs, text, closures,
                 input, output, _currHandler, _prevHandler, peer>>

\* The next thing process() does: a marked node becomes its sheet's rules
\* or a provider, a rule list is unfolded, a provider is processed; an
\* exception ends the call.
StepVisit ==
  /\ last.running
  /\ last.todo # <<>>
  /\ LET head == Head(last.todo)
         rest == Tail(last.todo)
         w == [World EXCEPT !.log = last.log]
     IN  CASE head.item = "node" ->
                /\ last' = Frame("process", TRUE,
                      <<IF ElementOf(head.id).localName \in {"link", "style"}
                        THEN RulesItem(Doc.sheet)
                        ELSE ProviderItem(ElementProvider(Doc, head.id))>>
                        \o rest, w)
                /\ Becomes(w)
           [] head.item = "rules" ->
                /\ last' = Frame("process", TRUE, Expand(head.rules) \o rest, w)
                /\ Becomes(w)
           [] OTHER ->
                LET w1 == _processStyleProvider(w, head.provider)
                IN  /\ last' = IF Threw(w1)
                               THEN Frame("process", FALSE, <<>>, w1)
                               ELSE Frame("process", TRUE, rest, w1)
                    /\ Becomes(w1)
  /\ UNCHANGED <<docId, passes, input, output>>

\* return this
StepReturn ==
  /\ last.running
  /\ last.todo = <<>>
  /\ last' = [last EXCEPT !.running = FALSE, !.ret = "this"]
  /\ UNCHANGED <<docId, triggers, handlers, listeners, attrs, text, closures,
                 passes, input, output, _currHandler, _prevHandler, peer>>

\* The user clicks an element; the DOM delivers no event while a call runs.
StepFireEvent(target) ==
  /\ ~last.running
  /\ listeners # <<>>
  /\ Attached(World, target)
  /\ LET w == DispatchEvent(World, target, S_click)
     IN  Becomes(w) /\ last' = Frame("event", FALSE, <<>>, w)
  /\ UNCHANGED <<docId, passes, input, output>>

\* The steps of a call that has started.
StepRun == StepVisit \/ StepReturn

StepNext ==
  \/ StepStart
  \/ StepVisit
  \/ StepReturn
  \/ \E target \in EventTargets : StepFireEvent(target)

\* ENABLED <<StepRun>>_vars: the call is running and its next step changes
\* what it has still to do. Every step but the unfolding of a rule list
\* changes it whatever the rules are.
StepRunEnabled ==
  /\ last.running
  /\ (last.todo # <<>> /\ Head(last.todo).item = "rules")
       => Expand(Head(last.todo).rules) # <<Head(last.todo)>>

\* <<StepRun>>_vars: only a step of the running call changes `last` while
\* the call runs.
StepRunTaken == last.running /\ last' # last

\* A call that has started runs on, since JavaScript runs a call to its
\* completion: this is WF_vars(StepRun), written with StepRunEnabled and
\* StepRunTaken.
StepFairness == []<>(~StepRunEnabled) \/ []<><<StepRunTaken>>_vars

StepSpec == StepInit /\ [][StepNext]_vars /\ StepFairness

\* ------------------------------------- the trigger dispatcher of v0.1.1

\* The triggers a page registers with the engine of v0.1.1.
SenderTriggers == {"onTracked", "custom", "faulty"}

\* What a caller passes as `sender`: a trigger, or nothing.
Senders == SenderTriggers \cup {"undefined"}

SenderInit ==
  /\ docId \in DOMAIN Documents
  /\ triggers = <<>>
  /\ handlers = <<>>
  /\ listeners = <<>>
  /\ attrs = {}
  /\ text = {}
  /\ closures = 0
  /\ passes = 0
  /\ _currHandler = 0
  /\ _prevHandler = 0
  /\ peer = NoPeer
  /\ last = Registration
  /\ input = <<>>
  /\ output = NotExtracted

\* this._processTrigger(nodes, args, styleProvider, payload, sender) for a
\* provider of the document whose expression decodes.
DispatchTriggers(i, sender) ==
  /\ i \in DOMAIN ProvidersInOrder
  /\ WellFormed(ProvidersInOrder[i])
  /\ LET p == ProvidersOf(Doc)[i]
         w == _processTriggerSender(World, NodesOf(ProvidersInOrder[i]),
                                    ArgsOf(ProvidersInOrder[i]), p, sender)
     IN  /\ w.closures <= MaxTrackedClosures
         /\ Becomes(w)
         /\ last' = [op |-> "_processTrigger", sender |-> sender,
                     provider |-> p.id, log |-> w.log, err |-> w.err,
                     ret |-> w.ret]
  /\ UNCHANGED <<docId, passes, input, output>>

SenderNext ==
  \/ \E t \in SenderTriggers : AddTrigger(t)
  \/ \E t \in SenderTriggers : RemoveTrigger(t)
  \/ \E i \in 1..4, sender \in Senders : DispatchTriggers(i, sender)

\* The page registers and removes triggers, and the dispatcher is called
\* for the providers of the document with and without a sender.
SenderSpec == SenderInit /\ [][SenderNext]_vars

\* The provider's arguments were handed to the trigger dispatcher.
Dispatched(p) ==
  \E j \in DOMAIN Log :
    Log[j].kind = "dispatchTriggers" /\ Log[j].provider = p.id

\* Every registered trigger was invoked for the provider.
DispatchedToTriggers(p) ==
  \A i \in DOMAIN triggers :
    \E j \in DOMAIN Log :
      /\ Log[j].kind = "trigger"
      /\ Log[j].trigger = triggers[i]
      /\ Log[j].provider = p.id

\* C1: in a process() pass in which nothing fails but the decoding of
\* argument texts, every well-formed marker-bearing provider of the
\* document, before or after a malformed one, has its parsed arguments
\* dispatched to every registered trigger.
C1_DecodeFailureSparesOtherProviders ==
  (/\ last.op = "process"
   /\ triggers # <<>>
   /\ last.err.name # "none" => last.err.where = "_processStyleProvider")
  => \A i \in DOMAIN ProvidersInOrder :
       WellFormed(ProvidersInOrder[i])
         => /\ Dispatched(ProvidersInOrder[i])
            /\ DispatchedToTriggers(ProvidersInOrder[i])

\* The providers of the document with an `on` expression that lists the
\* event type and applies to the node.
OnProvidersAt(node, type) ==
  LET Applies(p) ==
        /\ WellFormed(p)
        /\ ArgsOf(p).t = "object"
        /\ Get(ArgsOf(p), K_on).t = "object"
        /\ Get(Get(ArgsOf(p), K_on), K_events).t = "array"
        /\ \E i \in DOMAIN Get(Get(ArgsOf(p), K_on), K_events).v :
             Get(Get(ArgsOf(p), K_on), K_events).v[i] = JStr(type)
        /\ \E i \in DOMAIN NodesOf(p) : NodesOf(p)[i] = node
  IN  SelectSeq(ProvidersInOrder, Applies)

\* The indices of the invocations of a callback made by the listeners of a
\* node in the last event.
InvocationsAt(fn, node) ==
  {k \in DOMAIN Log :
     /\ Log[k].kind = "handler"
     /\ Log[k].fn = fn
     /\ Owner(k, {"listener"}) > 0
     /\ Log[Owner(k, {"listener"})].node = node}

\* C2: with the `on` trigger and one handler h registered, after two or more
\* process() passes a single event at an affected node invokes h exactly
\* once per provider that applies to that node.
C2_RepeatedPassesDoNotAccumulateListeners ==
  (/\ last.op = "event"
   /\ passes >= 2
   /\ triggers = <<"on">>
   /\ Len(handlers) = 1
   /\ handlers[1].trigger = "on"
   /\ OnProvidersAt(last.target, last.type) # <<>>)
  => Cardinality(InvocationsAt(handlers[1].fn, last.target))
       = Len(OnProvidersAt(last.target, last.type))

\* The registrations of a list other than those of (trigger, fn).
Without(list, trigger, fn) ==
  LET Other(h) == ~(h.trigger = trigger /\ h.fn = fn)
  IN  SelectSeq(list, Other)

\* C3: removeHandler(t, h) leaves no registration of h under t, wherever
\* the duplicates sit, and keeps every other registration in its order.
C3_RemoveHandlerRemovesEveryMatch ==
  [][\A h \in HandlerPairs :
       RemoveHandler(h.trigger, h.fn)
         => handlers' = Without(handlers, h.trigger, h.fn)]_vars

\* The registrations made against a trigger, in registration order.
HandlersOf(trigger) ==
  LET Matches(h) == h.trigger = trigger
  IN  SelectSeq(handlers, Matches)

\* The entry a dispatch logs when it invokes the registration.
Invocation(j, handler) ==
  [kind |-> "handler", fn |-> handler.fn, trigger |-> Log[j].trigger,
   nodes |-> Log[j].nodes, payload |-> Log[j].payload]

\* The registrations up to the first whose callback throws, that one
\* included.
RECURSIVE UntilOneThrows(_)
UntilOneThrows(list) ==
  IF list = <<>> THEN <<>>
  ELSE IF Head(list).fn = "hFaulty" THEN <<Head(list)>>
       ELSE <<Head(list)>> \o UntilOneThrows(Tail(list))

\* C4 (as stated): a handler dispatch for trigger identity t with (nodes,
\* payload) invokes, in registration order and once per registration,
\* exactly the callbacks registered under t, each with (nodes, payload); no
\* callback is invoked outside a dispatch, and a dispatch for an identity
\* with no registration invokes nothing and leaves no error.
C4_DispatchInvokesEveryMatchingCallback ==
  /\ \A j \in DOMAIN Log :
       Log[j].kind = "dispatch" =>
         LET M == HandlersOf(Log[j].trigger)
         IN  /\ j + Len(M) <= Len(Log)
             /\ \A k \in DOMAIN M : Log[j + k] = Invocation(j, M[k])
             /\ j + Len(M) < Len(Log) => Log[j + Len(M) + 1].kind # "handler"
             /\ (M = <<>> /\ j = Len(Log)) => last.err = NoError
  /\ \A k \in DOMAIN Log :
       Log[k].kind = "handler"
         => k > 1 /\ Log[k - 1].kind \in {"dispatch", "handler"}

\* C4 (amended): a handler dispatch for trigger identity t with (nodes,
\* payload) invokes, in registration order and once per registration, the
\* callbacks registered under t, each with (nodes, payload), up to and
\* including the first that throws; the exception ends the dispatch, so the
\* registrations after it are not invoked. No callback is invoked outside
\* a dispatch, and a dispatch for an identity with no registration invokes
\* nothing and leaves no error.
C4_DispatchInvokesMatchingCallbacksUntilOneThrows ==
  /\ \A j \in DOMAIN Log :
       Log[j].kind = "dispatch" =>
         LET M == HandlersOf(Log[j].trigger)
             E == UntilOneThrows(M)
             end == j + Len(E)
         IN  /\ end <= Len(Log)
             /\ \A k \in DOMAIN E : Log[j + k] = Invocation(j, E[k])
             /\ end < Len(Log) => Log[end + 1].kind # "handler"
             /\ (M = <<>> /\ j = Len(Log)) => last.err = NoError
             /\ (E # <<>> /\ E[Len(E)].fn = "hFaulty")
                  => IF end = Len(Log)
                     THEN last.err # NoError
                     ELSE Log[end + 1].kind = "reported"
  /\ \A k \in DOMAIN Log :
       Log[k].kind = "handler"
         => k > 1 /\ Log[k - 1].kind \in {"dispatch", "handler"}

\* A dispatch made while a callback that throws was registered ahead of
\* another callback for the same trigger.
C4_Witness ==
  \E j \in DOMAIN Log :
    /\ Log[j].kind = "dispatch"
    /\ Len(HandlersOf(Log[j].trigger)) = 2
    /\ HandlersOf(Log[j].trigger)[1].fn = "hFaulty"
    /\ HandlersOf(Log[j].trigger)[2].fn = "h1"

\* The provider of the document with the identity.
ProviderById(id) ==
  ProvidersInOrder[CHOOSE i \in DOMAIN ProvidersInOrder :
                     ProvidersInOrder[i].id = id]

\* The last entry of the provider that entry j belongs to.
ProviderEnd(j) ==
  IF \E i \in (j + 1)..Len(Log) : Log[i].kind = "provider"
  THEN (CHOOSE i \in (j + 1)..Len(Log) :
          /\ Log[i].kind = "provider"
          /\ \A k \in (j + 1)..(i - 1) : Log[k].kind # "provider") - 1
  ELSE Len(Log)

\* The trigger invocations of the trigger dispatch logged at j, in order.
TriggerCalls(j) ==
  LET IsCall(e) == e.kind = "trigger"
  IN  SelectSeq(SubSeq(Log, j + 1, ProviderEnd(j)), IsCall)

\* The provider logged at i is followed by its dispatch to the triggers,
\* with its node set and parsed arguments.
ProviderDispatched(i) ==
  /\ i < Len(Log)
  /\ Log[i + 1] = [kind |-> "dispatchTriggers",
                   provider |-> Log[i].provider,
                   nodes |-> NodesOf(ProviderById(Log[i].provider)),
                   args |-> ArgsOf(ProviderById(Log[i].provider))]

\* The k-th trigger invocation of the dispatch logged at j is that of the
\* k-th registered trigger, with the node set, the arguments and the
\* provider of the dispatch.
InRegistrationOrder(j, calls) ==
  \A k \in DOMAIN calls :
    calls[k] = [kind |-> "trigger", trigger |-> triggers[k],
                nodes |-> Log[j].nodes, args |-> Log[j].args,
                provider |-> Log[j].provider]

\* C5 (as stated): in a process() pass every provider visited whose content
\* yields a non-empty decodable argument, and no other, is dispatched, with
\* its node set and parsed arguments; the dispatch invokes every registered
\* trigger, in registration order and once per registration, each with the
\* node set, the arguments and the provider.
C5_EveryTriggerInvokedOncePerProvider ==
  last.op = "process" =>
    /\ \A i \in DOMAIN Log :
         Log[i].kind = "provider" =>
           IF WellFormed(ProviderById(Log[i].provider))
           THEN ProviderDispatched(i)
           ELSE i < Len(Log) => Log[i + 1].kind = "provider"
    /\ \A j \in DOMAIN Log :
         Log[j].kind = "dispatchTriggers" =>
           /\ Len(TriggerCalls(j)) = Len(triggers)
           /\ InRegistrationOrder(j, TriggerCalls(j))
    /\ \A k \in DOMAIN Log :
         Log[k].kind = "trigger" => Owner(k, {"dispatchTriggers"}) > 0

\* C5 (amended): in a process() pass every provider visited whose content
\* yields a non-empty decodable argument, and no other, is dispatched, with
\* its node set and parsed arguments; the dispatch invokes the registered
\* triggers in registration order, once per registration, each with the
\* node set, the arguments and the provider, up to and including the first
\* that throws: the exception ends the dispatch and the pass, so the
\* triggers registered after it are not invoked for that provider.
C5_TriggersInvokedOncePerProvider ==
  last.op = "process" =>
    /\ \A i \in DOMAIN Log :
         Log[i].kind = "provider" =>
           IF WellFormed(ProviderById(Log[i].provider))
           THEN ProviderDispatched(i)
           ELSE i < Len(Log) => Log[i + 1].kind = "provider"
    /\ \A j \in DOMAIN Log :
         Log[j].kind = "dispatchTriggers" =>
           /\ Len(TriggerCalls(j)) <= Len(triggers)
           /\ InRegistrationOrder(j, TriggerCalls(j))
           /\ Len(TriggerCalls(j)) < Len(triggers)
                => /\ Len(TriggerCalls(j)) >= 1
                   /\ ProviderEnd(j) = Len(Log)
                   /\ last.err.where = "_processTrigger"
    /\ \A k \in DOMAIN Log :
         Log[k].kind = "trigger" => Owner(k, {"dispatchTriggers"}) > 0

\* A pass that completed with two different triggers registered and
\* dispatched two providers or more.
C5_Witness ==
  /\ last.op = "process"
  /\ last.err = NoError
  /\ Len(triggers) = 2
  /\ triggers[1] # triggers[2]
  /\ \E i, j \in DOMAIN Log :
       /\ i < j
       /\ Log[i].kind = "dispatchTriggers"
       /\ Log[j].kind = "dispatchTriggers"

\* The number of times the trigger is in the list.
Occurrences(list, trigger) ==
  Cardinality({i \in DOMAIN list : list[i] = trigger})

\* C6 (as stated): removeTrigger(t) leaves no t in the trigger list, and a
\* process() call invokes none but the triggers of the list: after
\* addTrigger(t) and removeTrigger(t) no pass invokes t.
C6_RemoveTriggerEndsInvocation ==
  /\ [][\A t \in Triggers :
          RemoveTrigger(t) => Occurrences(triggers', t) = 0]_vars
  /\ [](last.op = "process" =>
          \A k \in DOMAIN Log :
            Log[k].kind = "trigger" => Occurrences(triggers, Log[k].trigger) > 0)

\* C6 (amended): removeTrigger(t) removes one registration of t, the first:
\* it leaves no t in the trigger list when t was registered once, and one
\* registration fewer otherwise; a process() call invokes none but the
\* triggers of the list. After addTrigger(t) of a trigger that was not
\* registered and removeTrigger(t), no pass invokes t.
C6_RemovedTriggerIsNotInvoked ==
  /\ [][\A t \in Triggers :
          RemoveTrigger(t) =>
            /\ Occurrences(triggers, t) = 1 => Occurrences(triggers', t) = 0
            /\ Occurrences(triggers, t) > 1
                 => Occurrences(triggers', t) = Occurrences(triggers, t) - 1]_vars
  /\ [](last.op = "process" =>
          \A k \in DOMAIN Log :
            Log[k].kind = "trigger" => Occurrences(triggers, Log[k].trigger) > 0)

\* A pass over a document with `on` expressions, made after the `on`
\* trigger had installed listeners and had been removed: it dispatched an
\* `on` expression and did not invoke the trigger.
C6_Witness ==
  /\ last.op = "process"
  /\ listeners # <<>>
  /\ Occurrences(triggers, "on") = 0
  /\ triggers # <<>>
  /\ \E j \in DOMAIN Log :
       /\ Log[j].kind = "dispatchTriggers"
       /\ Log[j].args.t = "object"
       /\ Get(Log[j].args, K_on).t = "object"

\* The place in the visiting order of the provider the pass was at when it
\* ended.
LastVisited ==
  CHOOSE i \in DOMAIN ProvidersInOrder :
    ProvidersInOrder[i].id = Log[Owner(Len(Log) + 1, {"provider"})].provider

\* C7: when a registered trigger throws for one provider, every provider
\* that comes later in the pass still has its arguments dispatched to the
\* triggers.
C7_ThrowingTriggerSparesLaterProviders ==
  (last.op = "process" /\ last.err.where = "_processTrigger")
  => \A i \in DOMAIN ProvidersInOrder :
       (i > LastVisited /\ WellFormed(ProvidersInOrder[i]))
         => Dispatched(ProvidersInOrder[i])

\* The listener whose invocation is logged at entry i of an event.
ListenerOf(i) ==
  LET at == CHOOSE n \in DOMAIN listeners :
              /\ listeners[n].node = Log[i].node
              /\ listeners[n].closure = Log[i].closure
              /\ listeners[n].type = last.type
  IN  listeners[at]

\* C8: when an installed listener fires, the handlers of the `on` trigger
\* receive, in mode "global", the node set resolved when the provider was
\* processed and, in any other mode, the one-element list of the affected
\* node whose listener fired; the payload is the event.
C8_LocalModeDeliversTheListenerNode ==
  last.op = "event" =>
    \A k \in DOMAIN Log :
      Log[k].kind = "handler" =>
        LET l == ListenerOf(Owner(k, {"listener"}))
        IN  /\ Log[k].nodes = IF l.mode = S_global THEN l.nodes ELSE <<l.node>>
            /\ Log[k].payload =
                 [kind |-> "event",
                  event |-> [type |-> last.type, target |-> last.target]]

\* The last entry of the trigger invocation logged at j.
CallEnd(j) ==
  LET Ends(i) == Log[i].kind \in {"trigger", "dispatchTriggers", "provider"}
  IN  IF \E i \in (j + 1)..Len(Log) : Ends(i)
      THEN (CHOOSE i \in (j + 1)..Len(Log) :
              Ends(i) /\ \A k \in (j + 1)..(i - 1) : ~Ends(k)) - 1
      ELSE Len(Log)

\* The arguments hold a `data` mapping.
HasDataMapping(args) ==
  /\ args.t = "object"
  /\ Get(args, K_data).t = "object"

\* C9: after the `data` trigger ran for a mapping D and a non-empty node
\* set, every node carries the attribute data-k with the value D[k] for
\* every key k of D, and the handler dispatcher was invoked once per key,
\* each time with the whole node set and the payload holding D.
C9_DataWritesEveryKeyAndDispatchesPerKey ==
  last.op = "process" =>
    \A j \in DOMAIN Log :
      (/\ Log[j].kind = "trigger"
       /\ Log[j].trigger = "data"
       /\ HasDataMapping(Log[j].args)
       /\ Log[j].nodes # <<>>)
      => LET D == Get(Log[j].args, K_data)
             made == {k \in (j + 1)..CallEnd(j) : Log[k].kind = "dispatch"}
         IN  /\ \A n \in DOMAIN Log[j].nodes : \A i \in DOMAIN D.keys :
                  [node |-> Log[j].nodes[n],
                   name |-> DataPrefix \o D.keys[i],
                   value |-> JsString(D.val[D.keys[i]])] \in attrs
             /\ Cardinality(made) = Len(D.keys)
             /\ \A k \in made :
                  /\ Log[k].trigger = "data"
                  /\ Log[k].nodes = Log[j].nodes
                  /\ Log[k].payload = [kind |-> "data", data |-> D]

\* The arguments have the shape the built-in trigger expects: an object
\* whose `on` is an object with an `events` list, or whose `data` is a
\* mapping.
Recognised(trigger, args) ==
  IF trigger = "on"
  THEN /\ args.t = "object"
       /\ Get(args, K_on).t = "object"
       /\ Get(Get(args, K_on), K_events).t = "array"
  ELSE HasDataMapping(args)

\* C10: a built-in trigger invoked with decoded arguments that lack the
\* shape it expects returns without throwing, installs no listener, writes
\* no attribute and dispatches to no handler.
C10_UnrecognisedShapesAreIgnored ==
  last.op = "process" =>
    \A j \in DOMAIN Log :
      (/\ Log[j].kind = "trigger"
       /\ Log[j].trigger \in {"on", "data"}
       /\ ~Recognised(Log[j].trigger, Log[j].args))
      => /\ CallEnd(j) = j
         /\ j = Len(Log) => last.err = NoError

\* The content is an expression: an optional quote, `stylish(`, an argument
\* without line terminators, `)`, an optional quote, and nothing else.
MatchesPattern(c) ==
  \E q1, q2 \in {0, 1} :
    /\ Len(c) >= q1 + Len(ATTRIBUTE_NAME) + 2 + q2
    /\ q1 = 1 => c[1] \in Quotes
    /\ q2 = 1 => c[Len(c)] \in Quotes
    /\ SubSeq(c, q1 + 1, q1 + Len(ATTRIBUTE_NAME)) = ATTRIBUTE_NAME
    /\ c[q1 + Len(ATTRIBUTE_NAME) + 1] = "("
    /\ c[Len(c) - q2] = ")"
    /\ \A k \in (q1 + Len(ATTRIBUTE_NAME) + 2)..(Len(c) - q2 - 1) :
         c[k] \notin LineTerminators

\* C11: for a content text that does not match the expression pattern the
\* extractor returns the empty string, and processing the provider that
\* holds it dispatches nothing, invokes no trigger and raises no error.
C11_NoMatchIsInert ==
  (output.done /\ ~MatchesPattern(input)) =>
    /\ output.arg = <<>>
    /\ \A k \in DOMAIN output.log : output.log[k].kind = "provider"
    /\ output.err = NoError

\* A processed text that starts with the marker and ends with the closing
\* parenthesis and still does not match: a line feed is in between.
C11_Witness ==
  /\ output.done
  /\ ~MatchesPattern(input)
  /\ Len(input) > Len(ATTRIBUTE_NAME) + 2
  /\ SubSeq(input, 1, Len(ATTRIBUTE_NAME)) = ATTRIBUTE_NAME
  /\ input[Len(ATTRIBUTE_NAME) + 1] = "("
  /\ input[Len(input)] = ")"

\* The argument text of a content that matches the pattern.
ArgumentText == REGEXP_EXPRESSION_capture(input)

\* The text holds a backslash followed by a quote.
HasEscapedQuote(s) ==
  \E i \in 1..(Len(s) - 1) : s[i] = "\\" /\ s[i + 1] \in Quotes

\* The text holds a backslash right before a backslash followed by a quote.
HasEscapedEscape(s) ==
  \E i \in 1..(Len(s) - 2) :
    s[i] = "\\" /\ s[i + 1] = "\\" /\ s[i + 2] \in Quotes

\* C12 (as stated): the unescape step is idempotent: for the argument text
\* s of every expression, unescape(unescape(s)) = unescape(s).
C12_UnescapeIsIdempotent ==
  (output.done /\ MatchesPattern(input)) =>
    ReplaceEscapedQuotes(ReplaceEscapedQuotes(ArgumentText))
      = ReplaceEscapedQuotes(ArgumentText)

\* C12 (amended): unescape(unescape(s)) = unescape(s) for exactly the
\* argument texts s that hold no backslash right before a backslash-quote
\* pair; for a text that holds one the first run leaves that backslash
\* before the quote it wrote, and the second run removes it.
C12_UnescapeIsIdempotentWithoutEscapedEscape ==
  (output.done /\ MatchesPattern(input)) =>
    /\ ~HasEscapedEscape(ArgumentText)
         => /\ ReplaceEscapedQuotes(ReplaceEscapedQuotes(ArgumentText))
                 = ReplaceEscapedQuotes(ArgumentText)
            /\ ~HasEscapedQuote(ReplaceEscapedQuotes(ArgumentText))
    /\ HasEscapedEscape(ArgumentText)
         => /\ HasEscapedQuote(ReplaceEscapedQuotes(ArgumentText))
            /\ Len(ReplaceEscapedQuotes(ReplaceEscapedQuotes(ArgumentText)))
                 < Len(ReplaceEscapedQuotes(ArgumentText))

\* An expression whose argument text holds an escaped single quote and no
\* backslash before it, extracted.
C12_Witness ==
  /\ output.done
  /\ MatchesPattern(input)
  /\ ~HasEscapedEscape(ArgumentText)
  /\ \E i \in 1..(Len(ArgumentText) - 1) :
       ArgumentText[i] = "\\" /\ ArgumentText[i + 1] = "'"

\* The entries of the log that hand the provider to the provider processor.
Visits(id) ==
  {k \in DOMAIN Log : Log[k].kind = "provider" /\ Log[k].provider = id}

\* C13: in a process() call every rule of the rule tree, at any depth, and
\* every marked element that is no style sheet is handed to the provider
\* processor exactly once.
C13_EveryProviderProcessedOnce ==
  last.op = "process" =>
    \A i \in DOMAIN ProvidersInOrder :
      Cardinality(Visits(ProvidersInOrder[i].id)) = 1

\* The list is `before` without the entry at one place, the rest in order.
LacksEntry(list, before, i) ==
  /\ Len(list) = Len(before) - 1
  /\ \A k \in 1..(i - 1) : list[k] = before[k]
  /\ \A k \in i..Len(list) : list[k] = before[k + 1]

AppendsOneEntry ==
  /\ \A t \in Triggers :
       AddTrigger(t) =>
         /\ triggers' = Append(triggers, t)
         /\ UNCHANGED <<handlers, listeners, attrs, text, closures>>
  /\ \A h \in HandlerPairs :
       AddHandler(h.trigger, h.fn) =>
         /\ handlers' = Append(handlers, h)
         /\ UNCHANGED <<triggers, listeners, attrs, text, closures>>

\* The callback invocations of the handler dispatch logged at j, in order.
RECURSIVE HandlerCalls(_)
HandlerCalls(j) ==
  IF j < Len(Log) /\ Log[j + 1].kind = "handler"
  THEN <<Log[j + 1]>> \o HandlerCalls(j + 1)
  ELSE <<>>

\* How many of the entries are invocations of the trigger, of the callback.
TimesTrigger(calls, t) ==
  Cardinality({k \in DOMAIN calls : calls[k].trigger = t})

TimesCallback(calls, fn) ==
  Cardinality({k \in DOMAIN calls : calls[k].fn = fn})

\* C15 (as stated): addTrigger and addHandler append one entry at the end
\* of their list and change nothing else, duplicates included; a trigger
\* that is in the list n times is invoked n times for every provider that
\* is dispatched, and a (trigger, callback) pair that is in the list n times
\* is invoked n times in every handler dispatch for the trigger.
C15_AppendedDuplicatesAreAllInvoked ==
  /\ [][AppendsOneEntry]_vars
  /\ [](last.op = "process" =>
          \A j \in DOMAIN Log :
            Log[j].kind = "dispatchTriggers" =>
              \A t \in Triggers :
                TimesTrigger(TriggerCalls(j), t) = Occurrences(triggers, t))
  /\ [](\A j \in DOMAIN Log :
          Log[j].kind = "dispatch" =>
            \A fn \in Callbacks :
              TimesCallback(HandlerCalls(j), fn)
                = TimesCallback(HandlersOf(Log[j].trigger), fn))

\* C15 (amended): addTrigger and addHandler append one entry at the end of
\* their list and change nothing else, duplicates included; a trigger that
\* is in the list n times is invoked n times for every provider that is
\* dispatched, and a (trigger, callback) pair that is in the list n times is
\* invoked n times in every handler dispatch for the trigger, unless an
\* invocation throws: the exception ends the dispatch, and the entries
\* after the one that threw, duplicates included, are not invoked.
C15_AppendedDuplicatesAreInvokedUntilOneThrows ==
  /\ [][AppendsOneEntry]_vars
  /\ [](last.op = "process" =>
          \A j \in DOMAIN Log :
            Log[j].kind = "dispatchTriggers" =>
              \/ \A t \in Triggers :
                   TimesTrigger(TriggerCalls(j), t) = Occurrences(triggers, t)
              \/ /\ last.err.where = "_processTrigger"
                 /\ ProviderEnd(j) = Len(Log)
                 /\ TriggerCalls(j) # <<>>
                 /\ \A t \in Triggers :
                      TimesTrigger(TriggerCalls(j), t)
                        = Occurrences(SubSeq(triggers, 1, Len(TriggerCalls(j))), t))
  /\ [](\A j \in DOMAIN Log :
          Log[j].kind = "dispatch" =>
            \A fn \in Callbacks :
              TimesCallback(HandlerCalls(j), fn)
                = TimesCallback(UntilOneThrows(HandlersOf(Log[j].trigger)), fn))

\* An event dispatched the handlers while one (trigger, callback) pair was
\* in the list twice: the callback was invoked twice in one dispatch.
C15_Witness ==
  /\ last.op = "event"
  /\ Len(handlers) = 2
  /\ handlers[1] = handlers[2]
  /\ \E j \in DOMAIN Log :
       /\ Log[j].kind = "dispatch"
       /\ TimesCallback(HandlerCalls(j), "h1") = 2

\* C16: addTrigger, removeTrigger, addHandler and removeHandler return the
\* engine they were called on and throw nothing, whether or not the entry
\* is registered, and a process() call that completes returns the engine.
C16_MethodsReturnTheEngine ==
  /\ last.op \in {"addTrigger", "removeTrigger", "addHandler", "removeHandler"}
       => last.ret = "this" /\ last.err = NoError
  /\ (last.op = "process" /\ last.err = NoError) => last.ret = "this"

\* removeHandler was called for a pair that was not registered, on an
\* engine with a registration of the same callback for another trigger.
C16_Witness ==
  /\ last.op = "removeHandler"
  /\ last.ret = "this"
  /\ last.before.handlers # <<>>
  /\ \A i \in DOMAIN last.before.handlers :
       /\ last.before.handlers[i].trigger # last.target
       /\ last.before.handlers[i].fn = last.fn

\* The registrations of the list made against the trigger, in order.
RegisteredFor(list, trigger) ==
  LET Matches(h) == h.trigger = trigger
  IN  SelectSeq(list, Matches)

\* C17: removeTrigger(t) leaves the handler registrations made against
\* every other trigger u in the list, in the same order, so that a later
\* firing of u still invokes them.
C17_RemoveTriggerKeepsOtherHandlers ==
  last.op = "removeTrigger" =>
    \A u \in Triggers \ {last.target} :
      RegisteredFor(handlers, u) = RegisteredFor(last.before.handlers, u)

\* The conditional group rules of the sheet, at any depth.
GroupRules ==
  LET rules == RulesInOrder(Doc.sheet)
  IN  {rules[i] : i \in {k \in DOMAIN rules : rules[k].kind = "media"}}

\* The identities of the rules nested inside the group rule, at any depth.
NestedIn(group) ==
  {RulesInOrder(group.cssRules)[i].id : i \in DOMAIN RulesInOrder(group.cssRules)}

\* C18: a process() call over a sheet that holds a conditional group rule,
\* in which no trigger and no decoding fails, raises no error, and every
\* marker-bearing rule nested inside the group is dispatched to the
\* triggers.
C18_GroupRulesAreTraversed ==
  (/\ last.op = "process"
   /\ GroupRules # {}
   /\ triggers # <<>>
   /\ last.err.where = "")
  => /\ last.err = NoError
     /\ \A group \in GroupRules :
          \A i \in DOMAIN ProvidersInOrder :
            (ProvidersInOrder[i].id \in NestedIn(group)
               /\ WellFormed(ProvidersInOrder[i]))
              => /\ Dispatched(ProvidersInOrder[i])
                 /\ DispatchedToTriggers(ProvidersInOrder[i])

\* The providers of the document that carry an `on` expression with a list
\* of events and apply to one element or more.
OnProviders ==
  LET Carries(p) ==
        /\ WellFormed(p)
        /\ ArgsOf(p).t = "object"
        /\ Get(ArgsOf(p), K_on).t = "object"
        /\ IsArray(Get(Get(ArgsOf(p), K_on), K_events))
        /\ NodesOf(p) # <<>>
  IN  SelectSeq(ProvidersInOrder, Carries)

\* The listeners on the node for the event type that the provider's
\* expression installed.
LiveListeners(p, node, type) ==
  {i \in DOMAIN listeners :
     /\ listeners[i].node = node
     /\ listeners[i].type = type
     /\ listeners[i].provider = p.id}

\* The event types the provider's expression lists.
EventsOf(p) ==
  {JsString(Get(Get(ArgsOf(p), K_on), K_events).v[k]) :
     k \in DOMAIN Get(Get(ArgsOf(p), K_on), K_events).v}

\* C19: with the `on` trigger of v0.1.1 registered and a document whose
\* providers carry two `on` expressions or more, after any number of
\* process() passes every (node, event) pair of every provider has exactly
\* one listener installed for that provider.
C19_OneLiveListenerPerProvider ==
  (passes >= 1 /\ Len(OnProviders) >= 2) =>
    \A i \in DOMAIN OnProviders :
      \A k \in DOMAIN NodesOf(OnProviders[i]) :
        \A type \in EventsOf(OnProviders[i]) :
          Cardinality(LiveListeners(OnProviders[i], NodesOf(OnProviders[i])[k],
                                    type)) = 1

\* The provider of the document with the identity, as the pass hands it to
\* the triggers.
StyleProviderById(id) ==
  ProvidersOf(Doc)[CHOOSE i \in DOMAIN ProvidersOf(Doc) :
                     ProvidersOf(Doc)[i].id = id]

\* The trigger invocation logged at k, made again on the engine and the
\* document as they are, outside the dispatcher.
Replayed(k) ==
  CallTrigger([World EXCEPT !.log = <<>>, !.err = NoError],
              Log[k].trigger, Log[k].nodes, Log[k].args,
              StyleProviderById(Log[k].provider))

\* The selector text of the provider, or the tag name of an element.
NameOf(p) == IF p.kind = "style" THEN p.selectorText ELSE p.localName

\* C20: when a trigger throws while it is invoked for a provider, no trigger
\* registered after it is invoked for that provider, and the error that
\* leaves the trigger dispatcher is a new Error of _processTrigger whose
\* message names the provider's selector text (the tag name for an element)
\* and the message of the original error.
C20_ThrowingTriggerEndsDispatch ==
  last.op = "process" =>
    \A k \in DOMAIN Log :
      (Log[k].kind = "trigger" /\ Threw(Replayed(k))) =>
        /\ \A i \in (k + 1)..Len(Log) :
             ~(Log[i].kind = "trigger" /\ Log[i].provider = Log[k].provider)
        /\ last.err.name = "Error"
        /\ last.err.where = "_processTrigger"
        /\ last.err # Replayed(k).err
        /\ last.err.label = NameOf(StyleProviderById(Log[k].provider))
        /\ last.err.cause = Replayed(k).err.cause

\* A pass with two triggers registered in which the first threw for a
\* provider.
C20_Witness ==
  /\ last.op = "process"
  /\ Len(triggers) = 2
  /\ \E k \in DOMAIN Log :
       /\ Log[k].kind = "trigger"
       /\ Log[k].trigger = triggers[1]
       /\ Threw(Replayed(k))
       /\ \A i \in DOMAIN Log :
            (Log[i].kind = "trigger" /\ Log[i].provider = Log[k].provider)
              => i = k

\* The callback invoked at entry k of the log throws.
ThrowingCall(k) == Log[k].kind = "handler" /\ Log[k].fn = "hFaulty"

\* C21: when a callback throws during a handler dispatch, no callback
\* registered after it is invoked in that dispatch and the exception reaches
\* the caller of the dispatch: the listener of an event hands it to the DOM,
\* which reports it; the `data` trigger hands it to the trigger dispatcher
\* of process(), which raises it as the failure of that trigger for that
\* provider.
C21_ThrowingCallbackEndsDispatch ==
  \A k \in DOMAIN Log :
    ThrowingCall(k) =>
      /\ k < Len(Log) => Log[k + 1].kind # "handler"
      /\ last.op = "event" =>
           /\ k < Len(Log)
           /\ Log[k + 1] = [kind |-> "reported", cause |-> "faulty handler"]
      /\ last.op = "process" =>
           /\ k = Len(Log)
           /\ Owner(k, {"trigger"}) > 0
           /\ Log[Owner(k, {"trigger"})].trigger = "data"
           /\ last.err =
                [name |-> "Error", where |-> "_processTrigger",
                 label |-> NameOf(StyleProviderById(
                             Log[Owner(k, {"trigger"})].provider)),
                 cause |-> "faulty handler"]

\* An event whose dispatch reached a callback that throws, registered ahead
\* of another callback for the same trigger.
C21_Witness ==
  /\ last.op = "event"
  /\ \E k \in DOMAIN Log :
       /\ ThrowingCall(k)
       /\ Len(HandlersOf(Log[k].trigger)) = 2
       /\ HandlersOf(Log[k].trigger)[2].fn = "h1"

\* The registered triggers other than the sender, in registration order.
NotSender(list, sender) ==
  LET Other(t) == t # sender
  IN  SelectSeq(list, Other)

\* The trigger invocations of the last call, in order.
Invoked ==
  LET IsCall(e) == e.kind = "trigger"
  IN  SelectSeq(Log, IsCall)

\* The entry the dispatcher of the last call logs when it invokes a trigger.
TriggerInvocation(trigger) ==
  [kind |-> "trigger", trigger |-> trigger, nodes |-> Log[1].nodes,
   args |-> Log[1].args, provider |-> last.provider]

\* The invocation at entry k of the log threw.
ThrewAt(k) == Log[k].kind = "trigger" /\ Threw(Replayed(k))

MatchingElements(selectorText) ==
  LET InDocument(id) ==
        \A i \in DOMAIN Ancestors(id) :
          \A r \in text : r.node # Ancestors(id)[i]
  IN  [k \in 1..Cardinality({i \in DOMAIN Elements :
                               /\ Elements[i].localName = selectorText
                               /\ InDocument(Elements[i].id)}) |->
         Elements[CHOOSE i \in DOMAIN Elements :
                    /\ Elements[i].localName = selectorText
                    /\ InDocument(Elements[i].id)
                    /\ Cardinality({j \in 1..i :
                                      /\ Elements[j].localName = selectorText
                                      /\ InDocument(Elements[j].id)}) = k].id]

\* The node set a provider stands for: the matching elements of a rule, the
\* element itself for an inline style.
AffectedNodes(p) ==
  IF p.kind = "style" THEN MatchingElements(p.selectorText) ELSE <<p.id>>

\* The trigger dispatches of the last call whose node set holds the node.
DispatchesWith(node) ==
  {j \in DOMAIN Log :
     /\ Log[j].kind = "dispatchTriggers"
     /\ \E k \in DOMAIN Log[j].nodes : Log[j].nodes[k] = node}

\* The marker-bearing providers the last call processed whose node set
\* holds the node.
ProcessedWith(node) ==
  {i \in DOMAIN Log :
     /\ Log[i].kind = "provider"
     /\ WellFormed(ProviderById(Log[i].provider))
     /\ \E k \in DOMAIN AffectedNodes(StyleProviderById(Log[i].provider)) :
          AffectedNodes(StyleProviderById(Log[i].provider))[k] = node}

MarkerOpen == ATTRIBUTE_NAME \o <<"(">>

\* The text is at position i of the content.
OccursAt(c, i, t) == i + Len(t) - 1 <= Len(c) /\ SubSeq(c, i, i + Len(t) - 1) = t

\* The text of the content between the first `stylish(` and the last `)`.
Between(c) ==
  LET first == CHOOSE i \in 1..Len(c) :
                 /\ OccursAt(c, i, MarkerOpen)
                 /\ \A j \in 1..(i - 1) : ~OccursAt(c, j, MarkerOpen)
      close == CHOOSE j \in 1..Len(c) :
                 c[j] = ")" /\ \A k \in (j + 1)..Len(c) : c[k] # ")"
  IN  SubSeq(c, first + Len(MarkerOpen), close - 1)

\* The positions of the text other than those of the quote of a
\* backslash-quote pair.
Uncovered(s) ==
  {i \in DOMAIN s : ~(i > 1 /\ s[i - 1] = "\\" /\ s[i] \in Quotes)}

\* The text with a double quote in place of every backslash-quote pair.
PairsReplaced(s) ==
  [k \in 1..Cardinality(Uncovered(s)) |->
     LET i == CHOOSE i \in Uncovered(s) :
                Cardinality({j \in Uncovered(s) : j <= i}) = k
     IN  IF i < Len(s) /\ s[i] = "\\" /\ s[i + 1] \in Quotes
         THEN "\""
         ELSE s[i]]

\* The text without the whitespace around it.
Stripped(s) ==
  IF \A i \in DOMAIN s : s[i] \in WhiteSpace THEN <<>>
  ELSE SubSeq(s,
         CHOOSE a \in DOMAIN s :
           s[a] \notin WhiteSpace /\ \A i \in 1..(a - 1) : s[i] \in WhiteSpace,
         CHOOSE b \in DOMAIN s :
           s[b] \notin WhiteSpace /\ \A i \in (b + 1)..Len(s) : s[i] \in WhiteSpace)

\* The provider processor did nothing with the provider it was handed.
Inert ==
  /\ \A k \in DOMAIN output.log : output.log[k].kind = "provider"
  /\ output.err = NoError

\* C24: for a content text that matches the expression pattern the
\* extractor returns the text between the first `stylish(` and the last `)`
\* with every backslash-quote pair replaced by a double quote and the
\* surrounding whitespace removed; a content no longer than the marker name
\* and an expression whose argument is empty or whitespace give the empty
\* string, and the provider that holds them is inert.
C24_ExtractorReturnsTheArgumentText ==
  output.done =>
    /\ MatchesPattern(input) =>
         /\ output.arg = Stripped(PairsReplaced(Between(input)))
         /\ (\A i \in DOMAIN Between(input) : Between(input)[i] \in WhiteSpace)
              => output.arg = <<>> /\ Inert
    /\ Len(input) <= Len(ATTRIBUTE_NAME) => output.arg = <<>> /\ Inert

\* A processed expression whose argument starts with a blank and holds an
\* escaped quote.
C24_Witness ==
  /\ output.done
  /\ MatchesPattern(input)
  /\ Between(input) # <<>>
  /\ Between(input)[1] \in WhiteSpace
  /\ HasEscapedQuote(Between(input))
  /\ output.arg # <<>>

\* The listener invoked at entry i of the log invoked the callback.
InvokedBy(i, fn) ==
  \E k \in DOMAIN Log :
    /\ Log[k].kind = "handler"
    /\ Log[k].fn = fn
    /\ Owner(k, {"listener"}) = i

\* C25: for the listeners that the `on` trigger installed during process(),
\* a handler added with addHandler after that process() call is invoked by
\* every later event that reaches a listener, and a handler removed with
\* removeHandler after that process() call is invoked by no later event.
C25_HandlersAreLookedUpWhenTheTriggerFires ==
  last.op = "event" =>
    \A i \in DOMAIN Log :
      Log[i].kind = "listener" =>
        /\ \A h \in last.added : InvokedBy(i, h.fn)
        /\ \A h \in last.removed : ~InvokedBy(i, h.fn)

\* The last entry of the dispatch logged at j: the entry before the next
\* one of the kinds, or the last of the log.
DispatchEnd(j, kinds) ==
  IF \E i \in (j + 1)..Len(Log) : Log[i].kind \in kinds
  THEN (CHOOSE i \in (j + 1)..Len(Log) :
          /\ Log[i].kind \in kinds
          /\ \A k \in (j + 1)..(i - 1) : Log[k].kind \notin kinds) - 1
  ELSE Len(Log)

\* How often the handler dispatch logged at j invoked the callback.
TimesInvoked(j, fn) ==
  Cardinality({k \in (j + 1)..DispatchEnd(j, {"dispatch", "trigger", "provider"}) :
                 Log[k].kind = "handler" /\ Log[k].fn = fn})

\* How often the trigger dispatch logged at j invoked the trigger.
TimesTriggered(j, t) ==
  Cardinality({k \in (j + 1)..DispatchEnd(j, {"provider"}) :
                 Log[k].kind = "trigger" /\ Log[k].trigger = t})

\* The registrations of the callback for the trigger in the list.
Registrations(list, trigger, fn) ==
  Cardinality({i \in DOMAIN list :
                 list[i].trigger = trigger /\ list[i].fn = fn})

\* C26: when a callback removes its own registration during a handler
\* dispatch, every other callback registered for the trigger at the start
\* of the dispatch is still invoked once per registration in that dispatch;
\* when a trigger removes itself during a trigger dispatch, every other
\* registered trigger is still invoked for that provider.
C26_SelfRemovalSparesTheOthers ==
  last.op = "process" =>
    \A k \in DOMAIN Log :
      /\ (Log[k].kind = "removeHandler"
            /\ Owner(k, {"removeHandler"}) < Owner(k, {"dispatch"})) =>
           \A fn \in ReentrantCallbacks \ {"hSelf"} :
             TimesInvoked(Owner(k, {"dispatch"}), fn)
               = Registrations(Log[k].before,
                               Log[Owner(k, {"dispatch"})].trigger, fn)
      /\ (Log[k].kind = "removeTrigger"
            /\ Owner(k, {"removeTrigger"}) < Owner(k, {"dispatchTriggers"})) =>
           \A t \in ReentrantTriggers \ {"selfRemoving"} :
             TimesTriggered(Owner(k, {"dispatchTriggers"}), t)
               = Occurrences(Log[k].before, t)

\* C27: addTrigger, removeTrigger, addHandler, removeHandler and process()
\* on one engine leave the trigger list and the handler list of the other
\* engine as they were, invoke no handler of the other engine and remove no
\* listener that the other engine's process() installed on an element.
C27_EnginesAreIndependent ==
  last.op # "new" =>
    /\ ListsOf(3 - last.engine) = last.others
    /\ \A k \in DOMAIN Log :
         Log[k].kind = "handler" => Log[k].fn # CallbackOf(3 - last.engine)
    /\ \A i \in DOMAIN last.listened :
         last.listened[i].engine = 3 - last.engine =>
           \E j \in DOMAIN listeners : listeners[j] = last.listened[i]

\* The handlers registered for the trigger.
HasHandler(trigger) == \E i \in DOMAIN handlers : handlers[i].trigger = trigger

\* The invocation of the data trigger logged at j was given a mapping with
\* a key and a node, and returned.
DataTriggerRan(j) ==
  /\ Log[j].kind = "trigger"
  /\ Log[j].trigger = "data"
  /\ HasDataMapping(Log[j].args)
  /\ ForInKeys(Get(Log[j].args, K_data)) # <<>>
  /\ Log[j].nodes # <<>>
  /\ CallEnd(j) < Len(Log) \/ last.err = NoError

\* During process() no handler of the `on` trigger is invoked, and the
\* handlers of the `data` trigger are invoked within the invocation of the
\* trigger, so before process() returns.
HandlersInProcess ==
  last.op = "process" =>
    /\ \A k \in DOMAIN Log :
         Log[k].kind = "handler" =>
           Log[k].trigger = "data" /\ Owner(k, {"trigger"}) > 0
    /\ \A j \in DOMAIN Log :
         (DataTriggerRan(j) /\ HasHandler("data")) =>
           \E k \in (j + 1)..CallEnd(j) :
             Log[k].kind = "handler" /\ Log[k].trigger = "data"

\* The handlers an event invokes are those of the `on` trigger.
HandlersInEvent ==
  last.op = "event" =>
    \A k \in DOMAIN Log : Log[k].kind = "handler" => Log[k].trigger = "on"

\* C28: a process() call that has started finishes, by returning the
\* engine or by raising an error, through its own steps and with no event
\* delivered while it runs; handlers of the `on` trigger are invoked by
\* events only, never during process(), and handlers of the `data` trigger
\* are invoked before process() returns.
C28_ProcessRunsToCompletion ==
  /\ last.running ~> (~last.running /\ (last.ret = "this" \/ Threw(last)))
  /\ [](HandlersInProcess /\ HandlersInEvent)
  /\ [][last.running => last'.op = "process"]_vars

\* A call that went through the rules nested in a group rule, invoked the
\* handler of the `data` trigger and has returned or raised.
C28_Witness ==
  /\ last.op = "process"
  /\ ~last.running
  /\ \E k \in DOMAIN Log : Log[k].kind = "handler"
  /\ \E k \in DOMAIN Log :
       /\ Log[k].kind = "provider"
       /\ \E group \in GroupRules : Log[k].provider \in NestedIn(group)

====
